---- MODULE Spec2Model ----
(***************************************************************************)
(* wealth-manager-web-app: the simulated market-data store                 *)
(* (databaseService), the batch download orchestration                     *)
(* (FinancialDataService), the download panel of FinancialDatabaseManager, *)
(* the update scheduler (DatabaseManagerService) and the AuthProvider.     *)
(*                                                                         *)
(* The program runs on one JavaScript event loop.  A step of the model is  *)
(* one piece of synchronous code: a call up to its first await, or the     *)
(* continuation of an await up to the next one.                            *)
(***************************************************************************)
EXTENDS Integers, Sequences, FiniteSets, TLC

(***************************************************************************)
(* Bounds of the model.                                                    *)
(***************************************************************************)
\* longest symbol list handed to a batch download
MaxSymbols == 3
\* longest downloadTypes list handed to downloadBatchMixedData
MaxTypes == 2
\* most progress entries (symbols times types) of a downloadBatchMixedData call
MaxMixedItems == 3
\* batch download calls made in one behaviour
MaxRuns == 1
\* the day the batch downloads run (day 0 is Wednesday, November 25th 2026)
Today == 5
\* the update timer is followed over the days 0 .. MaxDay
MaxDay == 1
\* HH:MM values of a day, in increasing order
SlotsPerDay == 2
\* timer callbacks in flight at a time
MaxTicks == 2
\* schedule objects alive at a time
MaxObjs == 4
\* calls a client makes to the DatabaseManagerService in one behaviour
MaxCalls == 4
\* days of history of a full download (40 years in downloadPriceData)
HistoryDays == 3
\* getLastAvailableDate draws daysAgo from 0 .. MaxDaysAgo-1 (30 in the source)
MaxDaysAgo == 2

\* batchSize is 100 in the source; scaled so that lists of MaxSymbols symbols
\* span several batches
batchSize == 2

Symbols == {"AAPL", "MSFT"}
DataTypes == {"price", "fundamental"}

Min(a, b) == IF a < b THEN a ELSE b

\* Array.prototype.indexOf, 1-based; 0 when absent
IndexOf(seq, x) ==
  IF \E j \in 1..Len(seq) : seq[j] = x
  THEN CHOOSE j \in 1..Len(seq) : seq[j] = x /\ \A h \in 1..(j-1) : seq[h] # x
  ELSE 0

SeqsUpTo(S, n) == UNION { [1..m -> S] : m \in 0..n }

VARIABLES
  \* databaseService
  db,            \* the simulated collections; db.open = FALSE is `db = null`
  isConnected,
  storeOps,      \* store calls that await their connectToDatabase
  lastOp,        \* the store call that completed last, with its result
  \* FinancialDataService batch download (one call at a time)
  dl,            \* the call: its arguments, loop index and position
  cancelToken,   \* the options.cancelToken object the call holds
  tasks,         \* one per progress entry: position and downloaded data
  progress,      \* the call's local progress array
  reported,      \* the last array handed to onProgress
  runs,          \* batch download calls made so far
  \* FinancialDatabaseManager (download panel)
  ui,
  \* the environment
  clock,         \* the local date and time of day: [day, slot]
  tzWest,        \* the local time zone is west of UTC
  \* DatabaseManagerService
  objs,          \* the UpdateSchedule objects, by reference
  updateSchedules, \* the Map, as the references of its values in key order
  isRunning,
  updateInterval, \* the field, the `schedules` array the callback of its
                 \* timer closes over, and the timers set and not cleared
  ticks,         \* timer callbacks that await a runScheduledUpdate
  calls,         \* calls the client has made to the service
  thrown,        \* the error the client's last call threw; "" when it returned
  \* AuthProvider
  localStorage,  \* the items access_token and refresh_token
  user,
  loading,
  authOps,       \* the mount effect and the login / refreshToken calls in flight
  lastAuth,      \* the login, logout or refreshToken call that ended last
  \* Dashboard
  dashboard,     \* its state: loading, error, portfolios, summary, aggregatedData
  \* DatabaseManagerService.triggerManualUpdate
  manual         \* the call: its position, the symbols listed, its tasks

storeVars == <<db, isConnected, storeOps, lastOp>>
dlVars == <<dl, cancelToken, tasks, progress, reported, runs, ui>>
envVars == <<clock, tzWest>>
schedVars ==
  <<objs, updateSchedules, isRunning, updateInterval, ticks, calls, thrown>>
authVars == <<localStorage, user, loading, authOps, lastAuth>>
pageVars == <<dashboard>>
manualVars == <<manual>>

(***************************************************************************)
(* databaseService: the simulated MongoDB collections.                     *)
(***************************************************************************)
NoPrice == [dates |-> {}, v |-> 0]
EmptyPriceEntry == [has |-> FALSE, val |-> NoPrice]
EmptyFundEntry == [has |-> FALSE, v |-> 0]
\* `symbolsCollection.get(symbol) || {}`: every field undefined
EmptyMeta ==
  [has |-> FALSE, priceDataAvailable |-> FALSE, fundamentalDataAvailable |-> FALSE,
   priceDataCount |-> 0, fundamentalDataCount |-> 0, status |-> "missing"]

\* `let db = null`
NullDb ==
  [open |-> FALSE,
   symbols |-> [s \in Symbols |-> EmptyMeta],
   priceData |-> [s \in Symbols |-> EmptyPriceEntry],
   fundamentalData |-> [s \in Symbols |-> EmptyFundEntry]]

\* the object connectToDatabase assigns to db: three new, empty Maps
FreshDb == [NullDb EXCEPT !.open = TRUE]

\* `!db || !isConnected`
NeedsConnect == ~db.open \/ ~isConnected

\* mutant: the status does not depend on the fundamental data
SetPriceDataComplete(d, symbol, priceData) ==
  [d EXCEPT
    !.priceData[symbol] = [has |-> TRUE, val |-> priceData],
    !.symbols[symbol] =
      [@ EXCEPT !.has = TRUE,
                !.priceDataAvailable = TRUE,
                !.priceDataCount = Cardinality(priceData.dates),
                !.status = "complete"]]

\* savePriceDataToMongoDB once connected: collection.set + symbol metadata
SetPriceData(d, symbol, priceData) ==
  [d EXCEPT
    !.priceData[symbol] = [has |-> TRUE, val |-> priceData],
    !.symbols[symbol] =
      [@ EXCEPT !.has = TRUE,
                !.priceDataAvailable = TRUE,
                !.priceDataCount = Cardinality(priceData.dates),
                !.status = IF d.symbols[symbol].fundamentalDataAvailable
                           THEN "complete" ELSE "partial"]]

\* saveFundamentalDataToMongoDB once connected
SetFundamentalData(d, symbol, v) ==
  [d EXCEPT
    !.fundamentalData[symbol] = [has |-> TRUE, v |-> v],
    !.symbols[symbol] =
      [@ EXCEPT !.has = TRUE,
                !.fundamentalDataAvailable = TRUE,
                !.fundamentalDataCount = 1,
                !.status = IF d.symbols[symbol].priceDataAvailable
                           THEN "complete" ELSE "partial"]]

\* deleteSymbolFromMongoDB once connected
DeleteSymbol(d, symbol) ==
  [d EXCEPT !.symbols[symbol] = EmptyMeta,
            !.priceData[symbol] = EmptyPriceEntry,
            !.fundamentalData[symbol] = EmptyFundEntry]

\* FinancialDataService.getSymbolStatus(data)
getSymbolStatus(data) ==
  IF data.priceDataAvailable /\ data.fundamentalDataAvailable THEN "complete"
  ELSE IF data.priceDataAvailable \/ data.fundamentalDataAvailable THEN "partial"
  ELSE "missing"

\* getPriceDataFromMongoDB once connected: `priceCollection.get(symbol) || []`
GetPriceData(d, symbol) ==
  IF d.priceData[symbol].has THEN d.priceData[symbol].val ELSE NoPrice

\* getFundamentalDataFromMongoDB once connected: `get(symbol) || null`
GetFundamentalData(d, symbol) ==
  IF d.fundamentalData[symbol].has
  THEN [isNull |-> FALSE, v |-> d.fundamentalData[symbol].v]
  ELSE [isNull |-> TRUE, v |-> 0]

(***************************************************************************)
(* FinancialDataService: the mock provider.                                *)
(***************************************************************************)
NullDate == [isNull |-> TRUE, day |-> 0]
DateOf(d) == [isNull |-> FALSE, day |-> d]

\* The generators draw their numbers from Math.random: the content of a
\* download is a value no other download of the behaviour has, the number of
\* the call and of the task that generated it.
ContentId(run, k) == run * 100 + k

\* Date.prototype.getDay: 0 is Sunday; day 0 is a Wednesday
getDay(d) == (d + 3) % 7

\* the records downloadPriceData generates for startDate..endDate: one per
\* day, weekends skipped (getDay() 0 or 6), with content v
GeneratePriceData(startDay, endDay, v) ==
  LET ds == { d \in startDay..endDay : getDay(d) \notin {0, 6} }
  IN [dates |-> ds, v |-> IF ds = {} THEN 0 ELSE v]

\* downloadPriceData(symbol, startDate?, endDate?): the range it covers;
\* no startDate means 40 years back (HistoryDays here), no endDate means now
PriceRange(startDate, endDate) ==
  [from |-> IF startDate.isNull THEN clock.day - HistoryDays ELSE startDate.day,
   to |-> IF endDate.isNull THEN clock.day ELSE endDate.day]

\* downloadIncrementalPriceData: from the day after lastAvailableDate to today
IncrementalRange(lastAvailableDate) ==
  PriceRange(DateOf(lastAvailableDate.day + 1), DateOf(clock.day))

\* getLastAvailableDate: the dates it can return for a symbol.  It does not
\* read the store: "a random date from the last 30 days"; null only from its
\* catch block, which nothing in its try block reaches.
getLastAvailableDate(symbol) ==
  { DateOf(clock.day - daysAgo) : daysAgo \in 0..(MaxDaysAgo - 1) }

\* the range a price task downloads (lines 274-283 / 528-537)
TaskPriceRange(override, lastDate) ==
  IF override THEN PriceRange(NullDate, NullDate)
  ELSE IF lastDate.isNull THEN PriceRange(NullDate, NullDate)
  ELSE IncrementalRange(lastDate)

(***************************************************************************)
(* FinancialDataService: downloadBatchPriceData, downloadBatchFundamental- *)
(* Data and downloadBatchMixedData.                                        *)
(***************************************************************************)
NoToken == [given |-> FALSE, cancelled |-> FALSE, reason |-> ""]
\* the cancelToken objects a caller can pass; reason "" is an absent or
\* empty reason (both are falsy)
Tokens ==
  { [given |-> TRUE, cancelled |-> FALSE, reason |-> ""] } \cup
  { [given |-> TRUE, cancelled |-> TRUE, reason |-> r] : r \in {"", "User cancelled"} }

IdleCall ==
  [pc |-> "idle", kind |-> "price", symbols |-> <<>>, types |-> <<>>,
   override |-> FALSE, i |-> 0, wasCancelled |-> FALSE, caller |-> "api"]

\* prev: what the store held for the task's symbol when its batch started
NoTask ==
  [pc |-> "pending", lastDate |-> NullDate, val |-> NoPrice,
   prev |-> EmptyPriceEntry]

NumTypes(d) == Len(d.types)
NumItems(d) == Len(d.symbols) * NumTypes(d)
\* progress entry k belongs to symbols[SymIdx] and types[TypeIdx]
SymIdx(d, k) == ((k - 1) \div NumTypes(d)) + 1
TypeIdx(d, k) == ((k - 1) % NumTypes(d)) + 1
ItemSymbol(d, k) == d.symbols[SymIdx(d, k)]
ItemType(d, k) == d.types[TypeIdx(d, k)]

\* `symbols.slice(i, i + batchSize)`, as the (1-based) positions it takes
BatchPositions(d, i) == (i + 1)..Min(i + batchSize, Len(d.symbols))
\* the tasks (one per symbol and type) of the batch at i
BatchItems(d, i) == { k \in 1..NumItems(d) : SymIdx(d, k) \in BatchPositions(d, i) }

\* the entry a task writes: symbols.indexOf(symbol) (times the number of
\* types, plus downloadTypes.indexOf(type))
ProgressIndex(d, k) ==
  (IndexOf(d.symbols, ItemSymbol(d, k)) - 1) * NumTypes(d)
    + IndexOf(d.types, ItemType(d, k))

\* the entry the batch marks 'downloading' for position si and type ti:
\* globalIndex (times the number of types, plus downloadTypes.indexOf(type))
MarkIndex(d, si, ti) == (si - 1) * NumTypes(d) + IndexOf(d.types, d.types[ti])

InitialProgress(d) ==
  [k \in 1..NumItems(d) |->
    [symbol |-> ItemSymbol(d, k), type |-> ItemType(d, k), progress |-> 0,
     status |-> "pending", message |-> "Waiting to start..."]]

DownloadingMessage(d, type) ==
  IF d.kind = "mixed"
  THEN IF d.override THEN "Downloading " \o type \o " data (override mode)..."
       ELSE "Downloading " \o type \o " data..."
  ELSE IF d.override THEN "Downloading (override mode)..."
       ELSE "Downloading " \o type \o " data..."

CompleteMessage(d, type, val) ==
  IF type = "price"
  THEN "Downloaded " \o ToString(Cardinality(val.dates)) \o " records"
         \o (IF d.override THEN " (override)" ELSE "")
  ELSE IF d.override THEN "Download complete (override)" ELSE "Download complete"

\* mutant: the loop does not look at the token
CancelIgnored(tok) == FALSE

\* `cancelToken?.cancelled`
CancelRequested(tok) == tok.given /\ tok.cancelled

\* `Cancelled: ${cancelToken.reason || 'Download was cancelled'}`
CancelMessage(tok) ==
  "Cancelled: " \o (IF tok.reason = "" THEN "Download was cancelled" ELSE tok.reason)

CancelledReport(prog, tok) ==
  [k \in 1..Len(prog) |->
    [prog[k] EXCEPT !.status = "error", !.message = CancelMessage(tok)]]

MarkDownloading(d, prog) ==
  LET marked == { MarkIndex(d, si, ti) :
                    si \in BatchPositions(d, d.i), ti \in 1..NumTypes(d) }
  IN [k \in 1..Len(prog) |->
       IF k \in marked
       THEN [prog[k] EXCEPT !.status = "downloading",
                            !.message = DownloadingMessage(d, prog[k].type)]
       ELSE prog[k]]

\* mutant: the last available date is looked up in override mode too
FirstPcAlwaysLooksUp(d, k) ==
  IF ItemType(d, k) = "price" THEN "getLast" ELSE "download"

\* a task runs synchronously up to its first await
FirstPc(d, k) ==
  IF ItemType(d, k) = "price" /\ ~d.override THEN "getLast" ELSE "download"

StartTasks(d, tsk) ==
  [k \in 1..Len(tsk) |->
    IF k \in BatchItems(d, d.i)
    THEN [tsk[k] EXCEPT !.pc = FirstPc(d, k),
                        !.prev = db.priceData[ItemSymbol(d, k)]]
    ELSE tsk[k]]

Settled(t) == t.pc \in {"ok", "failed"}
Begun(t) == t.pc # "pending"

\* mutant: Promise.race instead of Promise.allSettled
BatchRaced(d, tsk) == \E k \in BatchItems(d, d.i) : Settled(tsk[k])

\* Promise.allSettled(batchPromises) resolves
BatchSettled(d, tsk) == \A k \in BatchItems(d, d.i) : Settled(tsk[k])

\* The head of the for loop with the index in d.i: leave the loop, or return
\* on cancellation, or start the batch.  Gives the new dl, progress, tasks
\* and reported.
LoopHead(d, prog, tsk, rep, tok) ==
  IF d.i >= Len(d.symbols)
  THEN [dl |-> [d EXCEPT !.pc = "returned"],
        progress |-> prog, tasks |-> tsk, reported |-> rep]
  ELSE IF CancelRequested(tok)
  THEN [dl |-> [d EXCEPT !.pc = "returned", !.wasCancelled = TRUE],
        progress |-> prog, tasks |-> tsk, reported |-> CancelledReport(prog, tok)]
  ELSE LET marked == MarkDownloading(d, prog)
       IN [dl |-> [d EXCEPT !.pc = "batch"],
           progress |-> marked, tasks |-> StartTasks(d, tsk), reported |-> marked]

\* A call of one of the three batch downloads, up to its first await
Call(kind, syms, types, override, tok, caller) ==
  LET d == [pc |-> "batch", kind |-> kind, symbols |-> syms, types |-> types,
            override |-> override, i |-> 0, wasCancelled |-> FALSE,
            caller |-> caller]
      prog == InitialProgress(d)
      r == LoopHead(d, prog, [k \in 1..NumItems(d) |-> NoTask], prog, tok)
  IN /\ dl' = r.dl
     /\ progress' = r.progress
     /\ tasks' = r.tasks
     /\ reported' = r.reported

\* the model follows one batch download at a time
CallFree == dl.pc \in {"idle", "returned"} /\ ui.stage = "none"

\* a direct caller of the service
downloadBatchPriceData ==
  /\ CallFree /\ runs < MaxRuns
  /\ \E syms \in SeqsUpTo(Symbols, MaxSymbols), override \in BOOLEAN,
        tok \in Tokens \cup {NoToken} :
       /\ Call("price", syms, <<"price">>, override, tok, "api")
       /\ cancelToken' = tok
  /\ runs' = runs + 1
  /\ UNCHANGED <<ui, storeVars>>
  /\ UNCHANGED <<envVars, schedVars, authVars, pageVars, manualVars>>

downloadBatchFundamentalData ==
  /\ CallFree /\ runs < MaxRuns
  /\ \E syms \in SeqsUpTo(Symbols, MaxSymbols), override \in BOOLEAN,
        tok \in Tokens \cup {NoToken} :
       /\ Call("fundamental", syms, <<"fundamental">>, override, tok, "api")
       /\ cancelToken' = tok
  /\ runs' = runs + 1
  /\ UNCHANGED <<ui, storeVars>>
  /\ UNCHANGED <<envVars, schedVars, authVars, pageVars, manualVars>>

downloadBatchMixedData ==
  /\ CallFree /\ runs < MaxRuns
  /\ \E syms \in SeqsUpTo(Symbols, MaxSymbols),
        types \in SeqsUpTo(DataTypes, MaxTypes) \ {<<>>},
        override \in BOOLEAN, tok \in Tokens \cup {NoToken} :
       /\ Len(syms) * Len(types) <= MaxMixedItems
       /\ Call("mixed", syms, types, override, tok, "api")
       /\ cancelToken' = tok
  /\ runs' = runs + 1
  /\ UNCHANGED <<ui, storeVars>>
  /\ UNCHANGED <<envVars, schedVars, authVars, pageVars, manualVars>>

\* the caller sets cancelled on the token object it passed
CallerCancel ==
  /\ dl.pc \in {"batch", "delay"} /\ dl.caller = "api"
  /\ cancelToken.given /\ ~cancelToken.cancelled
  /\ \E r \in {"", "User cancelled"} :
       cancelToken' = [cancelToken EXCEPT !.cancelled = TRUE, !.reason = r]
  /\ UNCHANGED <<dl, tasks, progress, reported, runs, ui, storeVars>>
  /\ UNCHANGED <<envVars, schedVars, authVars, pageVars, manualVars>>

(***************************************************************************)
(* The task of one symbol (and type) of a batch: lines 268-309, 411-441,   *)
(* 521-580.  Each action is the continuation of one await.                 *)
(***************************************************************************)
Running(k) == dl.pc = "batch" /\ k \in 1..Len(tasks)

\* where a task goes once its download has returned
AfterDownload(d) == IF d.override THEN "delete" ELSE "save"

\* the try block ran to its end: the entry becomes 'complete'
CompleteEntry(d, prog, k, val) ==
  [prog EXCEPT ![ProgressIndex(d, k)] =
    [@ EXCEPT !.progress = 100, !.status = "complete",
              !.message = CompleteMessage(d, ItemType(d, k), val)]]

\* mutant: the catch block marks every entry of the running batch
OnTaskErrorMarksBatch(d, prog, k) ==
  [j \in 1..Len(prog) |->
    IF j \in BatchItems(d, d.i)
    THEN [prog[j] EXCEPT !.status = "error", !.message = "Download failed"]
    ELSE prog[j]]

\* the catch block of the task
OnTaskError(d, prog, k) ==
  [prog EXCEPT ![ProgressIndex(d, k)] =
    [@ EXCEPT !.status = "error", !.message = "Download failed"]]

\* save...ToMongoDB once connected, for the task's type
StoreSave(d, type, symbol, val) ==
  IF type = "price" THEN SetPriceData(d, symbol, val)
  ELSE SetFundamentalData(d, symbol, val.v)

\* `const lastDate = await this.getLastAvailableDate(symbol)` returns
GetLastDone(k) ==
  /\ Running(k) /\ tasks[k].pc = "getLast"
  /\ \E last \in getLastAvailableDate(ItemSymbol(dl, k)) :
       tasks' = [tasks EXCEPT ![k].pc = "download", ![k].lastDate = last]
  /\ UNCHANGED <<dl, cancelToken, progress, reported, runs, ui, storeVars>>
  /\ UNCHANGED <<envVars, schedVars, authVars, pageVars, manualVars>>

\* The delay of downloadPriceData / downloadFundamentalData is over: the data
\* is generated; downloadPriceData then saves it (line 51), which first
\* connects when the store is not connected.
DownloadDone(k) ==
  /\ Running(k) /\ tasks[k].pc = "download"
  /\ LET v == ContentId(runs, k) IN
       LET type == ItemType(dl, k)
           rng == TaskPriceRange(dl.override, tasks[k].lastDate)
           val == IF type = "price" THEN GeneratePriceData(rng.from, rng.to, v)
                  ELSE [dates |-> {}, v |-> v]
       IN IF type = "price" /\ NeedsConnect
          THEN /\ tasks' = [tasks EXCEPT ![k].pc = "connect1", ![k].val = val]
               /\ UNCHANGED <<db, isConnected>>
          ELSE /\ tasks' = [tasks EXCEPT ![k].pc = AfterDownload(dl), ![k].val = val]
               /\ db' = IF type = "price"
                        THEN SetPriceData(db, ItemSymbol(dl, k), val) ELSE db
               /\ UNCHANGED isConnected
  /\ UNCHANGED <<dl, cancelToken, progress, reported, runs, ui, storeOps, lastOp>>
  /\ UNCHANGED <<envVars, schedVars, authVars, pageVars, manualVars>>

\* deletePriceData / deleteFundamentalData return: they only wait
DeleteDone(k) ==
  /\ Running(k) /\ tasks[k].pc = "delete"
  /\ tasks' = [tasks EXCEPT ![k].pc = "save"]
  /\ UNCHANGED <<dl, cancelToken, progress, reported, runs, ui, storeVars>>
  /\ UNCHANGED <<envVars, schedVars, authVars, pageVars, manualVars>>

\* The delay of savePriceData / saveFundamentalData is over: the data is
\* saved, after a connect when the store is not connected.
SaveDone(k) ==
  /\ Running(k) /\ tasks[k].pc = "save"
  /\ IF NeedsConnect
     THEN /\ tasks' = [tasks EXCEPT ![k].pc = "connect2"]
          /\ UNCHANGED <<db, isConnected, progress>>
     ELSE /\ db' = StoreSave(db, ItemType(dl, k), ItemSymbol(dl, k), tasks[k].val)
          /\ tasks' = [tasks EXCEPT ![k].pc = "ok"]
          /\ progress' = CompleteEntry(dl, progress, k, tasks[k].val)
          /\ UNCHANGED isConnected
  /\ UNCHANGED <<dl, cancelToken, reported, runs, ui, storeOps, lastOp>>
  /\ UNCHANGED <<envVars, schedVars, authVars, pageVars, manualVars>>

\* The delay of the connectToDatabase a save of this task awaits is over.
\* connectToDatabase tested `!db` before the delay; now it assigns db the new
\* collections, and the save that awaited it writes to them (microtasks of
\* the same timer callback, so nothing runs in between).
ConnectDone(k) ==
  /\ Running(k) /\ tasks[k].pc \in {"connect1", "connect2"}
  /\ db' = StoreSave(FreshDb, ItemType(dl, k), ItemSymbol(dl, k), tasks[k].val)
  /\ isConnected' = TRUE
  /\ IF tasks[k].pc = "connect1"
     THEN /\ tasks' = [tasks EXCEPT ![k].pc = AfterDownload(dl)]
          /\ UNCHANGED progress
     ELSE /\ tasks' = [tasks EXCEPT ![k].pc = "ok"]
          /\ progress' = CompleteEntry(dl, progress, k, tasks[k].val)
  /\ UNCHANGED <<dl, cancelToken, reported, runs, ui, storeOps, lastOp>>
  /\ UNCHANGED <<envVars, schedVars, authVars, pageVars, manualVars>>

\* The download or the save of the task throws (the provider or the store
\* fails): the task's catch block runs.
TaskFail(k) ==
  /\ Running(k) /\ tasks[k].pc \in {"download", "connect1", "save", "connect2"}
  /\ tasks' = [tasks EXCEPT ![k].pc = "failed"]
  /\ progress' = OnTaskError(dl, progress, k)
  /\ UNCHANGED <<dl, cancelToken, reported, runs, ui, storeVars>>
  /\ UNCHANGED <<envVars, schedVars, authVars, pageVars, manualVars>>

\* `await Promise.allSettled(batchPromises)` continues: report, then wait
\* before the next batch, or leave the loop and return
BatchDone ==
  /\ dl.pc = "batch" /\ BatchSettled(dl, tasks)
  /\ reported' = progress
  /\ dl' = IF dl.i + batchSize < Len(dl.symbols)
           THEN [dl EXCEPT !.pc = "delay"]
           ELSE [dl EXCEPT !.pc = "returned", !.i = dl.i + batchSize]
  /\ UNCHANGED <<cancelToken, tasks, progress, runs, ui, storeVars>>
  /\ UNCHANGED <<envVars, schedVars, authVars, pageVars, manualVars>>

\* the delay between batches is over: `i += batchSize` and the loop head
NextBatch ==
  /\ dl.pc = "delay"
  /\ LET r == LoopHead([dl EXCEPT !.i = dl.i + batchSize], progress, tasks,
                       reported, cancelToken)
     IN /\ dl' = r.dl
        /\ progress' = r.progress
        /\ tasks' = r.tasks
        /\ reported' = r.reported
  /\ UNCHANGED <<cancelToken, runs, ui, storeVars>>
  /\ UNCHANGED <<envVars, schedVars, authVars, pageVars, manualVars>>

(***************************************************************************)
(* FinancialDatabaseManager: the download buttons and Cancel Download.     *)
(* cancelToken is React state: setCancelToken stores a new object, and     *)
(* downloadDataForList passes the object of the render it was created in.  *)
(***************************************************************************)
UiIdle ==
  [isDownloading |-> FALSE, cancelToken |-> [cancelled |-> FALSE, reason |-> ""],
   stage |-> "none", types |-> <<>>, cancelClicked |-> FALSE]

\* the three download buttons (lines 1486, 1494, 1502)
UiDownloadTypes == { <<"price">>, <<"fundamental">>, <<"price", "fundamental">> }

HasType(types, t) == \E j \in 1..Len(types) : types[j] = t

\* downloadDataForList, up to its first await; the buttons are disabled
\* while isDownloading.  cancelClicked records that Cancel Download was
\* pressed during this download.
downloadDataForList ==
  /\ CallFree /\ runs < MaxRuns
  /\ ~ui.isDownloading
  /\ \E types \in UiDownloadTypes, overrideMode \in BOOLEAN,
        syms \in SeqsUpTo(Symbols, MaxSymbols) \ {<<>>} :
       LET first == IF HasType(types, "price") THEN "price" ELSE "fundamental"
           tok == [given |-> TRUE, cancelled |-> ui.cancelToken.cancelled,
                   reason |-> ui.cancelToken.reason]
       IN /\ Call(first, syms, <<first>>, overrideMode, tok, "ui")
          /\ cancelToken' = tok
          /\ ui' = [ui EXCEPT !.isDownloading = TRUE, !.stage = first,
                              !.types = types, !.cancelClicked = FALSE]
  /\ runs' = runs + 1
  /\ UNCHANGED storeVars
  /\ UNCHANGED <<envVars, schedVars, authVars, pageVars, manualVars>>

\* downloadBatchPriceData has returned and 'fundamental' was asked for too:
\* downloadBatchFundamentalData is called with the same options
UiFundamentalStage ==
  /\ dl.pc = "returned" /\ dl.caller = "ui"
  /\ ui.stage = "price" /\ HasType(ui.types, "fundamental")
  /\ Call("fundamental", dl.symbols, <<"fundamental">>, dl.override,
          cancelToken, "ui")
  /\ ui' = [ui EXCEPT !.stage = "fundamental"]
  /\ UNCHANGED <<cancelToken, runs, storeVars>>
  /\ UNCHANGED <<envVars, schedVars, authVars, pageVars, manualVars>>

\* the last awaited download has returned: the finally block
UiFinally ==
  /\ dl.pc = "returned" /\ dl.caller = "ui"
  /\ ui.stage # "none"
  /\ ~(ui.stage = "price" /\ HasType(ui.types, "fundamental"))
  /\ ui' = [ui EXCEPT !.isDownloading = FALSE,
                      !.cancelToken = [cancelled |-> FALSE, reason |-> ""],
                      !.stage = "none"]
  /\ UNCHANGED <<dl, cancelToken, tasks, progress, reported, runs, storeVars>>
  /\ UNCHANGED <<envVars, schedVars, authVars, pageVars, manualVars>>

\* Cancel Download (shown while isDownloading): a new token object goes into
\* the state; the object the running download holds is not touched
cancelDownload ==
  /\ ui.isDownloading
  /\ ui' = [ui EXCEPT !.cancelToken = [cancelled |-> TRUE, reason |-> "User cancelled"],
                      !.isDownloading = FALSE,
                      !.cancelClicked = TRUE]
  /\ UNCHANGED <<dl, cancelToken, tasks, progress, reported, runs, storeVars>>
  /\ UNCHANGED <<envVars, schedVars, authVars, pageVars, manualVars>>

(***************************************************************************)
(* Dates.  A Date is [day, slot]; day 0 is Wednesday, November 25th 2026,  *)
(* and the slots of a day are its HH:MM values.  new Date(0) is EpochDate. *)
(***************************************************************************)
\* days from January 1st 1970 to November 25th 2026, negated
EpochDay == -20782
EpochDate == [day |-> EpochDay, slot |-> 0]

WeekdayNames == <<"Sun", "Mon", "Tue", "Wed", "Thu", "Fri", "Sat">>

\* the local calendar date of a day: getFullYear, getMonth, getDate and the
\* names toDateString prints.  The epoch falls on December 31st 1969 in a
\* time zone west of UTC.
Calendar(d) ==
  IF d = EpochDay
  THEN IF tzWest
       THEN [weekday |-> "Wed", month |-> "Dec", monthNo |-> 11, date |-> 31,
             year |-> 1969]
       ELSE [weekday |-> "Thu", month |-> "Jan", monthNo |-> 0, date |-> 1,
             year |-> 1970]
  ELSE IF d <= 5
  THEN [weekday |-> WeekdayNames[getDay(d) + 1], month |-> "Nov", monthNo |-> 10,
        date |-> 25 + d, year |-> 2026]
  ELSE [weekday |-> WeekdayNames[getDay(d) + 1], month |-> "Dec", monthNo |-> 11,
        date |-> d - 5, year |-> 2026]

\* Date.prototype.toDateString: "Www Mmm DD YYYY", as its four parts
toDateString(date) ==
  LET c == Calendar(date.day)
  IN <<c.weekday, c.month, c.date, c.year>>

\* the alphabetical position of a weekday or month name
AlphaRank ==
  [n \in {"Fri", "Mon", "Sat", "Sun", "Thu", "Tue", "Wed"} |->
     CASE n = "Fri" -> 0 [] n = "Mon" -> 1 [] n = "Sat" -> 2 [] n = "Sun" -> 3
       [] n = "Thu" -> 4 [] n = "Tue" -> 5 [] n = "Wed" -> 6]
  @@
  [n \in {"Apr", "Aug", "Dec", "Feb", "Jan", "Jul", "Jun", "Mar", "May", "Nov",
          "Oct", "Sep"} |->
     CASE n = "Apr" -> 0 [] n = "Aug" -> 1 [] n = "Dec" -> 2 [] n = "Feb" -> 3
       [] n = "Jan" -> 4 [] n = "Jul" -> 5 [] n = "Jun" -> 6 [] n = "Mar" -> 7
       [] n = "May" -> 8 [] n = "Nov" -> 9 [] n = "Oct" -> 10 [] n = "Sep" -> 11]

\* mutant: `>=` on the date strings
DateStringNotLess(a, b) ==
  \/ a = b
  \/ AlphaRank[a[1]] > AlphaRank[b[1]]
  \/ /\ a[1] = b[1]
     /\ \/ AlphaRank[a[2]] > AlphaRank[b[2]]
        \/ /\ a[2] = b[2]
           /\ \/ a[3] > b[3]
              \/ a[3] = b[3] /\ a[4] > b[4]

\* `a > b` on two toDateString values: the strings are compared character by
\* character, so by weekday name, then month name, then the two digits of
\* the day, then the year
DateStringGreater(a, b) ==
  \/ AlphaRank[a[1]] > AlphaRank[b[1]]
  \/ /\ a[1] = b[1]
     /\ \/ AlphaRank[a[2]] > AlphaRank[b[2]]
        \/ /\ a[2] = b[2]
           /\ \/ a[3] > b[3]
              \/ a[3] = b[3] /\ a[4] > b[4]

\* Date.prototype.getTime, in slots
getTime(date) == date.day * SlotsPerDay + date.slot

(***************************************************************************)
(* DatabaseManagerService: the schedules.                                  *)
(***************************************************************************)
SchedIds == {"s1", "s2"}
Frequencies == {"daily", "weekly", "monthly"}
Slots == 0..(SlotsPerDay - 1)
Refs == 1..MaxObjs

\* `lastRun: string | null`
NullRun == [isNull |-> TRUE, day |-> 0, slot |-> 0]
RunAt(date) == [isNull |-> FALSE, day |-> date.day, slot |-> date.slot]

\* a reference no object is behind
NoSchedule ==
  [live |-> FALSE, id |-> "", frequency |-> "daily", time |-> 0,
   enabled |-> FALSE, lastRun |-> NullRun]

\* The UpdateSchedule objects a client hands to the service: "s1" with any
\* frequency, at the last time of the day; "s2" daily at the first time of
\* the day, enabled or not.  None has run.
ScheduleInputs ==
  { [live |-> TRUE, id |-> "s1", frequency |-> f, time |-> SlotsPerDay - 1,
     enabled |-> TRUE, lastRun |-> NullRun] : f \in Frequencies }
  \cup
  { [live |-> TRUE, id |-> "s2", frequency |-> "daily", time |-> 0,
     enabled |-> e, lastRun |-> NullRun] : e \in BOOLEAN }

\* isScheduleDue(schedule, now, currentTime); the times are slots, which
\* order as their zero-padded HH:MM strings do
isScheduleDue(schedule, now, currentTime) ==
  LET lastRun == IF schedule.lastRun.isNull THEN EpochDate
                 ELSE [day |-> schedule.lastRun.day, slot |-> schedule.lastRun.slot]
      today == toDateString(now)
      lastRunDate == toDateString(lastRun)
  IN CASE schedule.frequency = "daily" ->
            DateStringGreater(today, lastRunDate) /\ currentTime >= schedule.time
       [] schedule.frequency = "weekly" ->
            LET daysSinceLastRun == (getTime(now) - getTime(lastRun)) \div SlotsPerDay
            IN daysSinceLastRun >= 7 /\ currentTime >= schedule.time
       [] schedule.frequency = "monthly" ->
            LET monthsSinceLastRun ==
                  (Calendar(now.day).year - Calendar(lastRun.day).year) * 12
                    + (Calendar(now.day).monthNo - Calendar(lastRun.day).monthNo)
            IN monthsSinceLastRun >= 1 /\ currentTime >= schedule.time
       [] OTHER -> FALSE

\* Map.prototype.set(id, ref): an existing key keeps its place, a new key
\* goes to the end
MapSet(o, map, id, ref) ==
  IF \E j \in 1..Len(map) : o[map[j]].id = id
  THEN [j \in 1..Len(map) |-> IF o[map[j]].id = id THEN ref ELSE map[j]]
  ELSE Append(map, ref)

\* Map.prototype.delete(scheduleId)
MapDelete(o, map, id) ==
  SelectSeq(map, LAMBDA r : o[r].id # id)

\* getUpdateSchedules().filter(s => s.enabled)
EnabledSchedules(o, map) == SelectSeq(map, LAMBDA r : o[r].enabled)

Range(seq) == { seq[j] : j \in 1..Len(seq) }

\* the objects the service can still reach: through the Map, the array of
\* the timer and the arrays of the callbacks in flight
Reachable(map, interval, tks) ==
  Range(map) \cup Range(interval.snap)
    \cup UNION { Range(tks[t].snap) : t \in 1..MaxTicks }

\* objects nothing reaches are dropped; a new object takes the first
\* reference not in use
Collect(o, used) == [r \in Refs |-> IF r \in used THEN o[r] ELSE NoSchedule]
HasFree(used) == Refs \ used # {}
Alloc(used) == CHOOSE r \in Refs \ used : \A q \in Refs \ used : r <= q

\* this.updateSchedules.set(schedule.id, schedule) with a new object
\* `schedule`: the new heap and Map
SetNew(o, map, interval, tks, schedule) ==
  LET used == Reachable(MapDelete(o, map, schedule.id), interval, tks)
      ref == Alloc(used)
  IN [objs |-> Collect([o EXCEPT ![ref] = schedule], used \cup {ref}),
      map |-> MapSet(o, map, schedule.id, ref)]
CanSetNew(o, map, interval, tks, id) ==
  HasFree(Reachable(MapDelete(o, map, id), interval, tks))

\* the call returned
NoError == ""

addUpdateSchedule ==
  /\ calls < MaxCalls /\ calls' = calls + 1
  /\ \E schedule \in ScheduleInputs :
       /\ CanSetNew(objs, updateSchedules, updateInterval, ticks, schedule.id)
       /\ LET r == SetNew(objs, updateSchedules, updateInterval, ticks, schedule)
          IN objs' = r.objs /\ updateSchedules' = r.map
  /\ thrown' = NoError
  /\ UNCHANGED <<isRunning, updateInterval, ticks>>
  /\ UNCHANGED <<storeVars, dlVars, envVars, authVars, pageVars, manualVars>>

removeUpdateSchedule ==
  /\ calls < MaxCalls /\ calls' = calls + 1
  /\ \E scheduleId \in SchedIds :
       LET map == MapDelete(objs, updateSchedules, scheduleId)
       IN /\ updateSchedules' = map
          /\ objs' = Collect(objs, Reachable(map, updateInterval, ticks))
  /\ thrown' = NoError
  /\ UNCHANGED <<isRunning, updateInterval, ticks>>
  /\ UNCHANGED <<storeVars, dlVars, envVars, authVars, pageVars, manualVars>>

\* `private updateInterval: NodeJS.Timeout | null = null`
NoInterval == [active |-> FALSE, snap |-> <<>>, timers |-> 0]

\* mutant: startIncrementalUpdates does not look at isRunning
StartNeverRefused(running) == FALSE

\* `if (this.isRunning)` of startIncrementalUpdates
StartRefused(running) == running

AlreadyRunning == "Incremental updates are already running"

\* startIncrementalUpdates: throws when running, else starts the timer over
\* the schedules that are enabled now
startIncrementalUpdates ==
  /\ calls < MaxCalls /\ calls' = calls + 1
  /\ IF StartRefused(isRunning)
     THEN /\ thrown' = AlreadyRunning
          /\ UNCHANGED <<isRunning, updateInterval>>
     ELSE /\ isRunning' = TRUE
          /\ updateInterval' =
               [active |-> TRUE, snap |-> EnabledSchedules(objs, updateSchedules),
                timers |-> updateInterval.timers + 1]
          /\ thrown' = NoError
  /\ UNCHANGED <<objs, updateSchedules, ticks>>
  /\ UNCHANGED <<storeVars, dlVars, envVars, authVars, pageVars, manualVars>>

stopIncrementalUpdates ==
  /\ calls < MaxCalls /\ calls' = calls + 1
  /\ updateInterval' =
       IF updateInterval.active
       THEN [NoInterval EXCEPT !.timers = updateInterval.timers - 1]
       ELSE updateInterval
  /\ isRunning' = FALSE
  /\ thrown' = NoError
  /\ objs' = Collect(objs, Reachable(updateSchedules, NoInterval, ticks))
  /\ UNCHANGED <<updateSchedules, ticks>>
  /\ UNCHANGED <<storeVars, dlVars, envVars, authVars, pageVars, manualVars>>

\* time passes
TimePasses ==
  /\ \E d \in 0..MaxDay, sl \in Slots :
       /\ getTime([day |-> d, slot |-> sl]) > getTime(clock)
       /\ clock' = [day |-> d, slot |-> sl]
  /\ UNCHANGED <<tzWest, storeVars, dlVars, schedVars, authVars, pageVars, manualVars>>


(***************************************************************************)
(* DatabaseManagerService: the timer callback and runScheduledUpdate.      *)
(***************************************************************************)
\* batchSize of runScheduledUpdate: 50 in the source, scaled
runBatchSize == 2

\* ended: how the last runScheduledUpdate the callback awaited ended
FreeTick ==
  [phase |-> "free", now |-> [day |-> 0, slot |-> 0], snap |-> <<>>, idx |-> 0,
   symbols |-> <<>>, i |-> 0, rt |-> <<>>, ended |-> "none"]

NoRunTask == [pc |-> "pending", lastDate |-> NullDate, val |-> NoPrice]

\* The for loop of the callback at position j with the Date `now`: the
\* positions whose schedule it tests before it awaits a run or ends
Tested(o, snap, j, now) ==
  { h \in j..Len(snap) :
      \A g \in j..(h - 1) : ~isScheduleDue(o[snap[g]], now, now.slot) }

\* the position of the schedule it runs; 0 when it runs none
FirstDue(o, snap, j, now) ==
  LET due == { h \in Tested(o, snap, j, now) :
                 isScheduleDue(o[snap[h]], now, now.slot) }
  IN IF due = {} THEN 0 ELSE CHOOSE h \in due : TRUE

\* the callback after the loop went on from position j: it awaits
\* runScheduledUpdate (in getDatabaseSymbols), or it is over
LoopFrom(o, tk, j) ==
  LET d == FirstDue(o, tk.snap, j, tk.now)
  IN IF d = 0 THEN FreeTick
     ELSE [FreeTick EXCEPT !.phase = "listing", !.now = tk.now,
                           !.snap = tk.snap, !.idx = d]

\* a callback of the timer is in flight: it awaits a runScheduledUpdate
InFlight == { t \in 1..MaxTicks : ticks[t].phase # "free" }

\* the setInterval callback runs, as callback t
TickAs(t) ==
  /\ updateInterval.timers > 0
  /\ ticks[t].phase = "free"
  /\ \A q \in 1..(t - 1) : ticks[q].phase # "free"
  /\ LET tk == [FreeTick EXCEPT !.now = clock, !.snap = updateInterval.snap]
     IN ticks' = [ticks EXCEPT ![t] = LoopFrom(objs, tk, 1)]
  /\ UNCHANGED <<objs, updateSchedules, isRunning, updateInterval, calls, thrown>>

\* the timer fires when the callbacks of its earlier ticks are over (their
\* runs took less than the minute between two ticks)
Tick ==
  /\ InFlight = {}
  /\ TickAs(1)
  /\ UNCHANGED <<storeVars, dlVars, envVars, authVars, pageVars, manualVars>>

\* the timer fires while the callback of an earlier tick still awaits its
\* run (a run over many batches takes more than a minute)
TickDuringRun ==
  /\ InFlight # {}
  /\ \E t \in 1..MaxTicks : TickAs(t)
  /\ UNCHANGED <<storeVars, dlVars, envVars, authVars, pageVars, manualVars>>

\* mutant: the catch block of runScheduledUpdate sets lastRun too
AlwaysSetsLastRun(ok) == TRUE

\* the two statements after the loop of runScheduledUpdate are reached when
\* its try block did not throw
SetsLastRun(ok) == ok

\* runScheduledUpdate of callback t returns, after its run (ok) or from its
\* catch block: with ok, `schedule.lastRun = new Date().toISOString()` and a
\* copy of the object goes into the Map; then the loop of the callback goes on
RunEnds(t, ok) ==
  LET tk == ticks[t]
      ref == tk.snap[tk.idx]
      o1 == IF SetsLastRun(ok) THEN [objs EXCEPT ![ref].lastRun = RunAt(clock)]
            ELSE objs
      how == IF ~ok THEN "listing failed"
             ELSE IF \E k \in 1..Len(tk.rt) : tk.rt[k].pc = "failed"
                  THEN "ran with failures" ELSE "ran"
      tks == [ticks EXCEPT ![t] =
                [LoopFrom(o1, tk, tk.idx + 1) EXCEPT !.ended = how]]
  IN /\ ticks' = tks
     /\ IF SetsLastRun(ok)
        THEN /\ CanSetNew(o1, updateSchedules, updateInterval, tks, o1[ref].id)
             /\ LET r == SetNew(o1, updateSchedules, updateInterval, tks, o1[ref])
                IN objs' = r.objs /\ updateSchedules' = r.map
        ELSE /\ objs' = Collect(o1, Reachable(updateSchedules, updateInterval, tks))
             /\ UNCHANGED updateSchedules
     /\ UNCHANGED <<isRunning, updateInterval, calls, thrown>>

\* getSymbolsFromMongoDB once connected; the Map's order is taken to be the
\* order of SymbolOrder
SymbolOrder == <<"AAPL", "MSFT">>
GetSymbols(d) == SelectSeq(SymbolOrder, LAMBDA sym : d.symbols[sym].has)

RunBatchPositions(tk) == (tk.i + 1)..Min(tk.i + runBatchSize, Len(tk.symbols))

\* the batch at tk.i starts: every task of it awaits getLastAvailableDate
StartRunBatch(tk) ==
  [tk EXCEPT !.phase = "batch",
             !.rt = [k \in 1..Len(tk.symbols) |->
                       IF k \in RunBatchPositions(tk)
                       THEN [tk.rt[k] EXCEPT !.pc = "getLast"] ELSE tk.rt[k]]]

\* getDatabaseSymbols has returned `symbols` to runScheduledUpdate of t
RunListed(t, symbols) ==
  IF symbols = <<>>
  THEN RunEnds(t, TRUE)
  ELSE /\ ticks' = [ticks EXCEPT ![t] =
                      StartRunBatch([ticks[t] EXCEPT
                        !.symbols = symbols,
                        !.rt = [k \in 1..Len(symbols) |-> NoRunTask]])]
       /\ UNCHANGED <<objs, updateSchedules, isRunning, updateInterval, calls, thrown>>

\* the delay of getDatabaseSymbols is over: getSymbolsFromMongoDB connects
\* first when the store is not connected
ListDone(t) ==
  /\ ticks[t].phase = "listing"
  /\ IF NeedsConnect
     THEN /\ ticks' = [ticks EXCEPT ![t].phase = "connect"]
          /\ UNCHANGED <<objs, updateSchedules, isRunning, updateInterval, calls, thrown>>
     ELSE RunListed(t, GetSymbols(db))
  /\ UNCHANGED <<storeVars, dlVars, envVars, authVars, pageVars, manualVars>>

\* the connectToDatabase it awaited is over: db is the new, empty collections
ListConnected(t) ==
  /\ ticks[t].phase = "connect"
  /\ db' = FreshDb
  /\ isConnected' = TRUE
  /\ RunListed(t, GetSymbols(FreshDb))
  /\ UNCHANGED <<storeOps, lastOp, dlVars, envVars, authVars, pageVars, manualVars>>

\* getDatabaseSymbols throws: the catch block of runScheduledUpdate
ListFail(t) ==
  /\ ticks[t].phase \in {"listing", "connect"}
  /\ RunEnds(t, FALSE)
  /\ UNCHANGED <<storeVars, dlVars, envVars, authVars, pageVars, manualVars>>

\* The tasks of a batch of runScheduledUpdate (lines 770-788).  The store is
\* connected when they run: getSymbolsFromMongoDB connected it, and nothing
\* in the application calls disconnectFromDatabase.
RunTaskAt(t, k, pc) ==
  /\ ticks[t].phase = "batch"
  /\ k \in 1..Len(ticks[t].rt)
  /\ ticks[t].rt[k].pc = pc

RunGetLastDone(t, k) ==
  /\ RunTaskAt(t, k, "getLast")
  /\ \E last \in getLastAvailableDate(ticks[t].symbols[k]) :
       ticks' = [ticks EXCEPT ![t].rt[k].pc = "download",
                              ![t].rt[k].lastDate = last]
  /\ UNCHANGED <<objs, updateSchedules, isRunning, updateInterval, calls, thrown>>
  /\ UNCHANGED <<storeVars, dlVars, envVars, authVars, pageVars, manualVars>>

\* downloadIncrementalPriceData / downloadPriceData: the data is generated
\* and saved (line 51)
RunDownloadDone(t, k) ==
  /\ RunTaskAt(t, k, "download")
  /\ LET rng == TaskPriceRange(FALSE, ticks[t].rt[k].lastDate)
         val == GeneratePriceData(rng.from, rng.to, ContentId(t, k))
     IN /\ ticks' = [ticks EXCEPT ![t].rt[k].pc = "save", ![t].rt[k].val = val]
        /\ db' = SetPriceData(db, ticks[t].symbols[k], val)
  /\ UNCHANGED <<objs, updateSchedules, isRunning, updateInterval, calls, thrown>>
  /\ UNCHANGED <<isConnected, storeOps, lastOp, dlVars, envVars, authVars, pageVars, manualVars>>

\* savePriceData
RunSaveDone(t, k) ==
  /\ RunTaskAt(t, k, "save")
  /\ ticks' = [ticks EXCEPT ![t].rt[k].pc = "ok"]
  /\ db' = SetPriceData(db, ticks[t].symbols[k], ticks[t].rt[k].val)
  /\ UNCHANGED <<objs, updateSchedules, isRunning, updateInterval, calls, thrown>>
  /\ UNCHANGED <<isConnected, storeOps, lastOp, dlVars, envVars, authVars, pageVars, manualVars>>

\* the download or the save throws: the task's catch block
RunTaskFail(t, k) ==
  /\ ticks[t].phase = "batch"
  /\ k \in 1..Len(ticks[t].rt)
  /\ ticks[t].rt[k].pc \in {"download", "save"}
  /\ ticks' = [ticks EXCEPT ![t].rt[k].pc = "failed"]
  /\ UNCHANGED <<objs, updateSchedules, isRunning, updateInterval, calls, thrown>>
  /\ UNCHANGED <<storeVars, dlVars, envVars, authVars, pageVars, manualVars>>

\* Promise.allSettled continues: the delay after the batch
RunBatchDone(t) ==
  /\ ticks[t].phase = "batch"
  /\ \A k \in RunBatchPositions(ticks[t]) : Settled(ticks[t].rt[k])
  /\ ticks' = [ticks EXCEPT ![t].phase = "delay"]
  /\ UNCHANGED <<objs, updateSchedules, isRunning, updateInterval, calls, thrown>>
  /\ UNCHANGED <<storeVars, dlVars, envVars, authVars, pageVars, manualVars>>

\* the delay is over: the next batch, or the end of the run
RunDelayDone(t) ==
  /\ ticks[t].phase = "delay"
  /\ IF ticks[t].i + runBatchSize < Len(ticks[t].symbols)
     THEN /\ ticks' = [ticks EXCEPT ![t] =
                         StartRunBatch([ticks[t] EXCEPT !.i = @ + runBatchSize])]
          /\ UNCHANGED <<objs, updateSchedules, isRunning, updateInterval, calls, thrown>>
     ELSE RunEnds(t, TRUE)
  /\ UNCHANGED <<storeVars, dlVars, envVars, authVars, pageVars, manualVars>>

(***************************************************************************)
(* DatabaseManagerService: triggerManualUpdate.                            *)
(***************************************************************************)
\* batchSize of triggerManualUpdate: 100 in the source, scaled so that a
\* listing of two symbols takes two batches
manualBatchSize == 1

\* phase "idle": no call made; "resolved" / "rejected": the last call ended
ManualIdle ==
  [phase |-> "idle", n |-> 0, symbols |-> <<>>, i |-> 0, mt |-> <<>>]

NoManualTask == [pc |-> "pending", val |-> NoPrice]

\* mutant: the task downloads from the day before today
ManualIncrementalRange(symbol) == IncrementalRange(DateOf(clock.day - 1))

\* the range of `downloadPriceData(symbol.symbol)`: no startDate, no endDate
ManualPriceRange(symbol) == PriceRange(NullDate, NullDate)

ManualBatchPositions(mn) ==
  (mn.i + 1)..Min(mn.i + manualBatchSize, Len(mn.symbols))

\* the batch at mn.i starts: its entries are marked 'updating' and every
\* task of it awaits downloadPriceData
StartManualBatch(mn) ==
  [mn EXCEPT !.phase = "batch",
             !.mt = [k \in 1..Len(mn.symbols) |->
                       IF k \in ManualBatchPositions(mn)
                       THEN [mn.mt[k] EXCEPT !.pc = "download"] ELSE mn.mt[k]]]

\* a client calls triggerManualUpdate(): it awaits getDatabaseSymbols
triggerManualUpdate ==
  /\ manual.phase \in {"idle", "resolved", "rejected"}
  /\ calls < MaxCalls /\ calls' = calls + 1
  /\ manual' = [ManualIdle EXCEPT !.phase = "listing", !.n = calls + 1]
  /\ UNCHANGED <<objs, updateSchedules, isRunning, updateInterval, ticks, thrown>>
  /\ UNCHANGED <<storeVars, dlVars, envVars, authVars, pageVars>>

\* getDatabaseSymbols has returned `symbols`: the first batch, or the end
\* of the call when there is no symbol
ManualListed(symbols) ==
  manual' =
    IF symbols = <<>>
    THEN [manual EXCEPT !.phase = "resolved"]
    ELSE StartManualBatch([manual EXCEPT
           !.symbols = symbols,
           !.mt = [k \in 1..Len(symbols) |-> NoManualTask]])

\* the delay of getDatabaseSymbols is over: getSymbolsFromMongoDB connects
\* first when the store is not connected
ManualListDone ==
  /\ manual.phase = "listing"
  /\ IF NeedsConnect
     THEN manual' = [manual EXCEPT !.phase = "connect"]
     ELSE ManualListed(GetSymbols(db))
  /\ UNCHANGED <<storeVars, dlVars, envVars, schedVars, authVars, pageVars>>

\* the connectToDatabase it awaited is over
ManualListConnected ==
  /\ manual.phase = "connect"
  /\ db' = FreshDb
  /\ isConnected' = TRUE
  /\ ManualListed(GetSymbols(FreshDb))
  /\ UNCHANGED <<storeOps, lastOp, dlVars, envVars, schedVars, authVars, pageVars>>

\* getDatabaseSymbols throws: the outer catch block rethrows
ManualListFail ==
  /\ manual.phase \in {"listing", "connect"}
  /\ manual' = [manual EXCEPT !.phase = "rejected"]
  /\ UNCHANGED <<storeVars, dlVars, envVars, schedVars, authVars, pageVars>>

ManualTaskAt(k, pc) ==
  /\ manual.phase = "batch"
  /\ k \in 1..Len(manual.mt)
  /\ manual.mt[k].pc = pc

\* downloadPriceData(symbol): the data is generated and saved (line 51)
ManualDownloadDone(k) ==
  /\ ManualTaskAt(k, "download")
  /\ LET rng == ManualPriceRange(manual.symbols[k])
         val == GeneratePriceData(rng.from, rng.to,
                                  ContentId(MaxTicks + manual.n, k))
     IN /\ manual' = [manual EXCEPT !.mt[k].pc = "save", !.mt[k].val = val]
        /\ db' = SetPriceData(db, manual.symbols[k], val)
  /\ UNCHANGED <<isConnected, storeOps, lastOp, dlVars, envVars, schedVars,
                 authVars, pageVars>>

\* savePriceData(symbol, priceData)
ManualSaveDone(k) ==
  /\ ManualTaskAt(k, "save")
  /\ manual' = [manual EXCEPT !.mt[k].pc = "ok"]
  /\ db' = SetPriceData(db, manual.symbols[k], manual.mt[k].val)
  /\ UNCHANGED <<isConnected, storeOps, lastOp, dlVars, envVars, schedVars,
                 authVars, pageVars>>

\* the download or the save throws: the task's catch block
ManualTaskFail(k) ==
  /\ manual.phase = "batch"
  /\ k \in 1..Len(manual.mt)
  /\ manual.mt[k].pc \in {"download", "save"}
  /\ manual' = [manual EXCEPT !.mt[k].pc = "failed"]
  /\ UNCHANGED <<storeVars, dlVars, envVars, schedVars, authVars, pageVars>>

\* Promise.allSettled continues: the delay after the batch
ManualBatchDone ==
  /\ manual.phase = "batch"
  /\ \A k \in ManualBatchPositions(manual) : manual.mt[k].pc \in {"ok", "failed"}
  /\ manual' = [manual EXCEPT !.phase = "delay"]
  /\ UNCHANGED <<storeVars, dlVars, envVars, schedVars, authVars, pageVars>>

\* the delay is over: the next batch, or the call returns
ManualDelayDone ==
  /\ manual.phase = "delay"
  /\ manual' =
       IF manual.i + manualBatchSize < Len(manual.symbols)
       THEN StartManualBatch([manual EXCEPT !.i = @ + manualBatchSize])
       ELSE [manual EXCEPT !.phase = "resolved"]
  /\ UNCHANGED <<storeVars, dlVars, envVars, schedVars, authVars, pageVars>>

(***************************************************************************)
(* databaseService: the exported functions, called by a client directly.   *)
(***************************************************************************)
\* store calls awaiting connectToDatabase at a time
MaxStoreOps == 2

\* the price lists and fundamental data a client saves
PriceInputs == { NoPrice, [dates |-> {0}, v |-> 1], [dates |-> {0, 1}, v |-> 2] }
FundInputs == {1, 2}
NoFund == [isNull |-> TRUE, v |-> 0]

NoOp ==
  [kind |-> "none", symbol |-> "", val |-> NoPrice, fund |-> NoFund,
   flip |-> FALSE]

StoreCallOf(kind, symbol, val, fund) ==
  [kind |-> kind, symbol |-> symbol, val |-> val, fund |-> fund]

\* the body of a store function after its connection test: the new db and
\* what the call returns (for a save, the data it was given)
StoreApply(d, call) ==
  CASE call.kind = "savePrice" ->
         [db |-> SetPriceData(d, call.symbol, call.val),
          val |-> call.val, fund |-> NoFund]
    [] call.kind = "saveFund" ->
         [db |-> SetFundamentalData(d, call.symbol, call.fund.v),
          val |-> NoPrice, fund |-> call.fund]
    [] call.kind = "getPrice" ->
         [db |-> d, val |-> GetPriceData(d, call.symbol), fund |-> NoFund]
    [] call.kind = "getFund" ->
         [db |-> d, val |-> NoPrice, fund |-> GetFundamentalData(d, call.symbol)]
    [] call.kind = "delete" ->
         [db |-> DeleteSymbol(d, call.symbol), val |-> NoPrice, fund |-> NoFund]

Completed(call, r) ==
  [kind |-> call.kind, symbol |-> call.symbol, val |-> r.val, fund |-> r.fund,
   flip |-> ~lastOp.flip]

\* A store function is called: `if (!db || !isConnected) await
\* connectToDatabase()`, else its body runs at once
StoreCall(call) ==
  IF NeedsConnect
  THEN /\ Cardinality(storeOps) < MaxStoreOps
       /\ call \notin storeOps
       /\ storeOps' = storeOps \cup {call}
       /\ UNCHANGED <<db, isConnected, lastOp>>
  ELSE /\ db' = StoreApply(db, call).db
       /\ lastOp' = Completed(call, StoreApply(db, call))
       /\ UNCHANGED <<isConnected, storeOps>>

savePriceDataToMongoDB ==
  /\ \E symbol \in Symbols, priceData \in PriceInputs :
       StoreCall(StoreCallOf("savePrice", symbol, priceData, NoFund))
  /\ UNCHANGED <<dlVars, envVars, schedVars, authVars, pageVars, manualVars>>

saveFundamentalDataToMongoDB ==
  /\ \E symbol \in Symbols, v \in FundInputs :
       StoreCall(StoreCallOf("saveFund", symbol, NoPrice,
                             [isNull |-> FALSE, v |-> v]))
  /\ UNCHANGED <<dlVars, envVars, schedVars, authVars, pageVars, manualVars>>

getPriceDataFromMongoDB ==
  /\ \E symbol \in Symbols :
       StoreCall(StoreCallOf("getPrice", symbol, NoPrice, NoFund))
  /\ UNCHANGED <<dlVars, envVars, schedVars, authVars, pageVars, manualVars>>

getFundamentalDataFromMongoDB ==
  /\ \E symbol \in Symbols :
       StoreCall(StoreCallOf("getFund", symbol, NoPrice, NoFund))
  /\ UNCHANGED <<dlVars, envVars, schedVars, authVars, pageVars, manualVars>>

deleteSymbolFromMongoDB ==
  /\ \E symbol \in Symbols :
       StoreCall(StoreCallOf("delete", symbol, NoPrice, NoFund))
  /\ UNCHANGED <<dlVars, envVars, schedVars, authVars, pageVars, manualVars>>

\* The connectToDatabase a call awaited is over: it found db null when it
\* was called, so it assigns db the new collections; the body of the call
\* runs on them.
StoreConnected ==
  /\ \E call \in storeOps :
       /\ db' = StoreApply(FreshDb, call).db
       /\ isConnected' = TRUE
       /\ storeOps' = storeOps \ {call}
       /\ lastOp' = Completed(call, StoreApply(FreshDb, call))
  /\ UNCHANGED <<dlVars, envVars, schedVars, authVars, pageVars, manualVars>>

(***************************************************************************)
(* AuthProvider.  The requests of authService resolve with a response or   *)
(* reject.                                                                 *)
(***************************************************************************)
\* localStorage.getItem gives null
NoItem == ""
NoTokens == [access_token |-> NoItem, refresh_token |-> NoItem]
\* the token pairs authService.login and authService.refreshToken resolve with
TokenResponses ==
  { [access_token |-> "a1", refresh_token |-> "r1"],
    [access_token |-> "a2", refresh_token |-> "r2"] }
\* `user: User | null`
NoUser == ""
Users == {"u1", "u2"}

AuthOpsIdle == [mount |-> "done", login |-> "idle", refresh |-> "idle"]
NoAuth == [op |-> "none", ok |-> FALSE, user |-> NoUser, flip |-> FALSE]
Ended(op, ok, u) == [op |-> op, ok |-> ok, user |-> u, flip |-> ~lastAuth.flip]

\* the promise of the mount effect settles: then(setUser), or the catch that
\* removes the tokens; finally setLoading(false)
MountSettled ==
  /\ authOps.mount = "pending"
  /\ \/ \E u \in Users : user' = u /\ UNCHANGED localStorage
     \/ localStorage' = NoTokens /\ UNCHANGED user
  /\ loading' = FALSE
  /\ authOps' = [authOps EXCEPT !.mount = "done"]
  /\ UNCHANGED lastAuth
  /\ UNCHANGED <<storeVars, dlVars, envVars, schedVars, pageVars, manualVars>>

\* login(username, password), from the Login page: App renders it when
\* loading is over and there is no user, and its button is disabled while
\* a login is in flight
login ==
  /\ ~loading /\ user = NoUser /\ authOps.login = "idle"
  /\ authOps' = [authOps EXCEPT !.login = "login"]
  /\ UNCHANGED <<localStorage, user, loading, lastAuth>>
  /\ UNCHANGED <<storeVars, dlVars, envVars, schedVars, pageVars, manualVars>>

\* authService.login resolves: both tokens are stored, getCurrentUser is called
LoginResolved ==
  /\ authOps.login = "login"
  /\ \E response \in TokenResponses : localStorage' = response
  /\ authOps' = [authOps EXCEPT !.login = "me"]
  /\ UNCHANGED <<user, loading, lastAuth>>
  /\ UNCHANGED <<storeVars, dlVars, envVars, schedVars, pageVars, manualVars>>

\* authService.getCurrentUser resolves: setUser(currentUser)
CurrentUserResolved ==
  /\ authOps.login = "me"
  /\ \E currentUser \in Users :
       /\ user' = currentUser
       /\ lastAuth' = Ended("login", TRUE, currentUser)
  /\ authOps' = [authOps EXCEPT !.login = "idle"]
  /\ UNCHANGED <<localStorage, loading>>
  /\ UNCHANGED <<storeVars, dlVars, envVars, schedVars, pageVars, manualVars>>

\* either request of login rejects: the catch block rethrows
LoginRejected ==
  /\ authOps.login \in {"login", "me"}
  /\ authOps' = [authOps EXCEPT !.login = "idle"]
  /\ lastAuth' = Ended("login", FALSE, NoUser)
  /\ UNCHANGED <<localStorage, user, loading>>
  /\ UNCHANGED <<storeVars, dlVars, envVars, schedVars, pageVars, manualVars>>

\* logout(), by a consumer of the context
logout ==
  /\ ~loading
  /\ localStorage' = NoTokens
  /\ user' = NoUser
  /\ lastAuth' = Ended("logout", TRUE, NoUser)
  /\ UNCHANGED <<loading, authOps>>
  /\ UNCHANGED <<storeVars, dlVars, envVars, schedVars, pageVars, manualVars>>

\* refreshToken(), by a consumer of the context: without a refresh_token it
\* does nothing
refreshToken ==
  /\ ~loading /\ authOps.refresh = "idle"
  /\ IF localStorage.refresh_token # NoItem
     THEN /\ authOps' = [authOps EXCEPT !.refresh = "request"]
          /\ UNCHANGED lastAuth
     ELSE /\ lastAuth' = Ended("refreshToken", TRUE, NoUser)
          /\ UNCHANGED authOps
  /\ UNCHANGED <<localStorage, user, loading>>
  /\ UNCHANGED <<storeVars, dlVars, envVars, schedVars, pageVars, manualVars>>

\* authService.refreshToken resolves: both tokens are stored
RefreshResolved ==
  /\ authOps.refresh = "request"
  /\ \E response \in TokenResponses : localStorage' = response
  /\ authOps' = [authOps EXCEPT !.refresh = "idle"]
  /\ lastAuth' = Ended("refreshToken", TRUE, NoUser)
  /\ UNCHANGED <<user, loading>>
  /\ UNCHANGED <<storeVars, dlVars, envVars, schedVars, pageVars, manualVars>>

\* authService.refreshToken rejects: the catch block calls logout()
RefreshRejected ==
  /\ authOps.refresh = "request"
  /\ localStorage' = NoTokens
  /\ user' = NoUser
  /\ authOps' = [authOps EXCEPT !.refresh = "idle"]
  /\ lastAuth' = Ended("refreshToken", FALSE, NoUser)
  /\ UNCHANGED loading
  /\ UNCHANGED <<storeVars, dlVars, envVars, schedVars, pageVars, manualVars>>

(***************************************************************************)
(* Dashboard: loadDashboardData.  Amounts are whole numbers.               *)
(***************************************************************************)
\* most portfolios portfolioService.getPortfolios returns
MaxPortfolios == 2
\* most holdings of a portfolio
MaxHoldings == 2
\* largest quantity of a holding
MaxQuantity == 2

\* `asset_type: string`: the five types the forms offer, and one they do not
AssetTypes == {"stock", "etf", "mutual_fund", "money_market", "cash", "bond"}
HoldingInputs ==
  [asset_type : AssetTypes, quantity : 1..MaxQuantity, average_cost : {3},
   unrealized_gain_loss : {0, 1}]
\* a portfolio: its holdings (a portfolio without the field has none to
\* iterate)
PortfolioInputs ==
  [hasHoldings : {TRUE}, holdings : SeqsUpTo(HoldingInputs, MaxHoldings)]
    \cup {[hasHoldings |-> FALSE, holdings |-> <<>>]}

RECURSIVE SumSeq(_)
SumSeq(seq) == IF seq = <<>> THEN 0 ELSE Head(seq) + SumSeq(Tail(seq))

RECURSIVE Flatten(_)
\* the holdings the two nested for loops visit, in order
Flatten(portfoliosData) ==
  IF portfoliosData = <<>> THEN <<>>
  ELSE (IF Head(portfoliosData).hasHoldings
        THEN Head(portfoliosData).holdings ELSE <<>>)
         \o Flatten(Tail(portfoliosData))

HoldingValue(holding) == holding.quantity * holding.average_cost

MapSeq(seq, Op(_)) == [j \in 1..Len(seq) |-> Op(seq[j])]

\* the summary object; the percentage is kept as the quotient it is computed
\* from
Summarise(portfoliosData) ==
  LET all == Flatten(portfoliosData)
      totalValue == SumSeq(MapSeq(all, HoldingValue))
      totalGainLoss == SumSeq(MapSeq(all, LAMBDA h : h.unrealized_gain_loss))
  IN [total_value |-> totalValue,
      total_gain_loss |-> totalGainLoss,
      total_gain_loss_percent |->
        IF totalValue > 0 THEN [num |-> totalGainLoss * 100, den |-> totalValue]
        ELSE [num |-> 0, den |-> 1],
      holdings_count |->
        SumSeq(MapSeq(portfoliosData,
                      LAMBDA q : IF q.hasHoldings THEN Len(q.holdings) ELSE 0))]

\* one row of aggregatedData: the holdings the switch sends to it
AssetRow(all, types) ==
  LET mine == SelectSeq(all, LAMBDA h : h.asset_type \in types)
  IN [count |-> Len(mine),
      value |-> SumSeq(MapSeq(mine, HoldingValue)),
      gainLoss |-> SumSeq(MapSeq(mine, LAMBDA h : h.unrealized_gain_loss))]

Aggregate(portfoliosData) ==
  LET all == Flatten(portfoliosData)
      summaryData == Summarise(portfoliosData)
  IN [totalValue |-> summaryData.total_value,
      totalGainLoss |-> summaryData.total_gain_loss,
      totalGainLossPercent |-> summaryData.total_gain_loss_percent,
      equities |-> AssetRow(all, {"stock"}),
      etfs |-> AssetRow(all, {"etf"}),
      mutualFunds |-> AssetRow(all, {"mutual_fund"}),
      cash |-> AssetRow(all, {"cash", "money_market"})]

\* `useState(null)` for summary and aggregatedData
NoSummary == [isNull |-> TRUE]
DashboardInit ==
  [loading |-> TRUE, error |-> "", portfolios |-> <<>>,
   summary |-> NoSummary, aggregatedData |-> NoSummary]

\* getPortfolios resolves: the try block and the finally block
loadDashboardData ==
  /\ dashboard.loading
  /\ \E portfoliosData \in SeqsUpTo(PortfolioInputs, MaxPortfolios) :
       dashboard' =
         IF Len(portfoliosData) > 0
         THEN [dashboard EXCEPT
                 !.portfolios = portfoliosData,
                 !.summary = [isNull |-> FALSE, v |-> Summarise(portfoliosData)],
                 !.aggregatedData = [isNull |-> FALSE, v |-> Aggregate(portfoliosData)],
                 !.loading = FALSE]
         ELSE [dashboard EXCEPT !.portfolios = portfoliosData, !.loading = FALSE]
  /\ UNCHANGED <<storeVars, dlVars, envVars, schedVars, authVars, manualVars>>

\* getPortfolios rejects: the catch block sets the error
LoadDashboardFailed ==
  /\ dashboard.loading
  /\ dashboard' = [dashboard EXCEPT !.error = "Failed to load dashboard data",
                                    !.loading = FALSE]
  /\ UNCHANGED <<storeVars, dlVars, envVars, schedVars, authVars, manualVars>>

(***************************************************************************)
(* Specification of the batch downloads.                                   *)
(***************************************************************************)

vars == <<db, isConnected, storeOps, lastOp,
          dl, cancelToken, tasks, progress, reported, runs, ui,
          clock, tzWest,
          objs, updateSchedules, isRunning, updateInterval, ticks, calls,
          thrown,
          localStorage, user, loading, authOps, lastAuth,
          dashboard, manual>>

StoreInit ==
  /\ db = NullDb
  /\ isConnected = FALSE
  /\ storeOps = {}
  /\ lastOp = NoOp

DownloadInit ==
  /\ dl = IdleCall
  /\ cancelToken = NoToken
  /\ tasks = <<>>
  /\ progress = <<>>
  /\ reported = <<>>
  /\ runs = 0
  /\ ui = UiIdle

\* the service before any call
SchedIdle ==
  /\ objs = [r \in Refs |-> NoSchedule]
  /\ updateSchedules = <<>>
  /\ isRunning = FALSE
  /\ updateInterval = NoInterval
  /\ ticks = [t \in 1..MaxTicks |-> FreeTick]
  /\ calls = 0
  /\ thrown = NoError
  /\ manual = ManualIdle

\* the provider with no tokens stored, after its mount effect
AuthIdle ==
  /\ dashboard = DashboardInit
  /\ localStorage = NoTokens
  /\ user = NoUser
  /\ loading = FALSE
  /\ authOps = AuthOpsIdle
  /\ lastAuth = NoAuth

Init ==
  /\ StoreInit /\ DownloadInit /\ SchedIdle /\ AuthIdle
  /\ clock = [day |-> Today, slot |-> 0]
  /\ tzWest = FALSE

Next ==
  \/ downloadBatchPriceData
  \/ downloadBatchFundamentalData
  \/ downloadBatchMixedData
  \/ CallerCancel
  \/ \E k \in 1..Len(tasks) : GetLastDone(k)
  \/ \E k \in 1..Len(tasks) : DownloadDone(k)
  \/ \E k \in 1..Len(tasks) : DeleteDone(k)
  \/ \E k \in 1..Len(tasks) : SaveDone(k)
  \/ \E k \in 1..Len(tasks) : ConnectDone(k)
  \/ \E k \in 1..Len(tasks) : TaskFail(k)
  \/ BatchDone
  \/ NextBatch
  \/ downloadDataForList
  \/ UiFundamentalStage
  \/ UiFinally
  \/ cancelDownload

Spec == Init /\ [][Next]_vars

(***************************************************************************)
(* Properties of the batch downloads.                                      *)
(***************************************************************************)
BatchOf(k) == (SymIdx(dl, k) - 1) \div batchSize
Items == 1..Len(tasks)

\* a step that runs the head of the loop: a call, or the end of the delay
LoopHeadStep == dl' # dl /\ dl.pc \in {"idle", "returned", "delay"}
\* a step that starts a batch
BatchStartStep == LoopHeadStep /\ dl'.pc = "batch"

\* C1: the symbols are taken in list order in consecutive slices of batchSize
\* positions, each slice is started as a whole, and no task of a slice has
\* begun while a task of an earlier slice is not settled.
C1_BatchesInOrder ==
  dl.pc # "idle" =>
    /\ \A j \in Items, k \in Items :
         (BatchOf(j) < BatchOf(k) /\ Begun(tasks[k])) => Settled(tasks[j])
    /\ \A j \in Items, k \in Items :
         (BatchOf(j) = BatchOf(k)) => (Begun(tasks[j]) <=> Begun(tasks[k]))
    /\ Cardinality({ SymIdx(dl, k) : k \in { j \in Items :
                       Begun(tasks[j]) /\ ~Settled(tasks[j]) } }) <= batchSize

\* a second batch is running, after a first one in which a task failed
C1_Witness ==
  /\ dl.pc = "batch" /\ dl.i = batchSize
  /\ \E k \in Items : BatchOf(k) = 1 /\ Begun(tasks[k]) /\ ~Settled(tasks[k])
  /\ \E k \in Items : BatchOf(k) = 0 /\ tasks[k].pc = "failed"

\* C2: when the token's cancelled flag is set as a batch is about to start,
\* the call returns without starting a task of that batch or of a later one,
\* and reports every entry as 'error' with 'Cancelled: <reason>', the reason
\* defaulting to 'Download was cancelled'.
C2_CancelAtBatchStart ==
  [][ (/\ LoopHeadStep
       /\ dl'.i < Len(dl'.symbols)
       /\ cancelToken'.given /\ cancelToken'.cancelled)
      =>
      (/\ dl'.pc = "returned"
       /\ \A k \in 1..Len(tasks') :
            SymIdx(dl', k) > dl'.i => tasks'[k].pc = "pending"
       /\ Len(reported') = NumItems(dl')
       /\ \A k \in 1..Len(reported') :
            /\ reported'[k].symbol = ItemSymbol(dl', k)
            /\ reported'[k].type = ItemType(dl', k)
            /\ reported'[k].status = "error"
            /\ reported'[k].message =
                 (IF cancelToken'.reason = ""
                  THEN "Cancelled: Download was cancelled"
                  ELSE "Cancelled: " \o cancelToken'.reason)) ]_vars

\* a call cancelled after its first batch, by a token without a reason
C2_Witness ==
  /\ dl.pc = "returned" /\ dl.wasCancelled /\ dl.i = batchSize
  /\ cancelToken.cancelled /\ cancelToken.reason = ""
  /\ \E k \in Items : tasks[k].pc = "ok"
  /\ \E k \in Items : tasks[k].pc = "pending"
  /\ \A k \in 1..Len(reported) :
       reported[k].message = "Cancelled: Download was cancelled"

\* C3: once Cancel Download has been pressed during a download started by
\* downloadDataForList, that download starts no further batch.
C3_CancelStopsDownload ==
  [][ (ui.stage # "none" /\ ui.cancelClicked /\ dl.caller = "ui")
      => ~BatchStartStep ]_vars

\* the dates of a complete history
FullHistoryDates ==
  { d \in (clock.day - HistoryDays)..clock.day : getDay(d) \notin {0, 6} }

\* C4: in override mode no task looks up the last available date, and when a
\* price task completes it has downloaded the complete history and the
\* records stored for its symbol are exactly the records it downloaded.
C4_OverrideReplaces ==
  [][ \A k \in Items :
        (/\ dl.pc = "batch" /\ dl.override /\ ItemType(dl, k) = "price"
         /\ Len(tasks') = Len(tasks)
         /\ tasks[k].pc # "ok" /\ tasks'[k].pc = "ok")
        =>
        (/\ tasks'[k].lastDate.isNull
         /\ \A j \in Items : tasks[j].pc # "getLast"
         /\ tasks'[k].val.dates = FullHistoryDates
         /\ db'.priceData[ItemSymbol(dl, k)] = [has |-> TRUE, val |-> tasks'[k].val]
         /\ db'.symbols[ItemSymbol(dl, k)].priceDataCount
              = Cardinality(tasks'[k].val.dates)) ]_vars

\* an override price task has completed for a symbol that had other price
\* data stored when its batch started
C4_Witness ==
  /\ dl.pc \in {"batch", "delay", "returned"} /\ dl.override
  /\ \E k \in Items :
       /\ ItemType(dl, k) = "price" /\ tasks[k].pc = "ok"
       /\ tasks[k].prev.has /\ tasks[k].prev.val # tasks[k].val
       /\ db.priceData[ItemSymbol(dl, k)].val = tasks[k].val

\* the last date of the price records stored for a symbol
HasStoredPrices(symbol) ==
  db.priceData[symbol].has /\ db.priceData[symbol].val.dates # {}
LastStoredDate(symbol) ==
  CHOOSE d \in db.priceData[symbol].val.dates :
    \A e \in db.priceData[symbol].val.dates : e <= d

\* C5: without override, a symbol with no stored price data gets the complete
\* history, and a symbol with stored price data gets the days after its last
\* stored date up to today.
C5_IncrementalFromStore ==
  [][ \A k \in Items :
        (/\ dl.pc = "batch" /\ ~dl.override
         /\ Len(tasks') = Len(tasks)
         /\ tasks[k].pc = "getLast" /\ tasks'[k].pc = "download")
        =>
        LET symbol == ItemSymbol(dl, k)
            rng == TaskPriceRange(FALSE, tasks'[k].lastDate)
        IN IF HasStoredPrices(symbol)
           THEN rng = [from |-> LastStoredDate(symbol) + 1, to |-> clock.day]
           ELSE rng = [from |-> clock.day - HistoryDays, to |-> clock.day] ]_vars

\* C6: when a task fails, the entries that change are entries of its symbol
\* and type and become 'error' / 'Download failed', no other task is
\* touched and the call goes on; a call that returns without cancellation
\* has run every task to its end.
C6_FailureIsLocal ==
  [][ /\ \A k \in Items :
           (/\ dl.pc = "batch" /\ Len(tasks') = Len(tasks)
            /\ tasks[k].pc # "failed" /\ tasks'[k].pc = "failed")
           =>
           (/\ \A j \in 1..Len(progress) :
                 progress'[j] # progress[j] =>
                   /\ progress[j].symbol = ItemSymbol(dl, k)
                   /\ progress[j].type = ItemType(dl, k)
                   /\ progress'[j] = [progress[j] EXCEPT !.status = "error",
                                                         !.message = "Download failed"]
            /\ \E j \in 1..Len(progress) :
                 /\ progress'[j].symbol = ItemSymbol(dl, k)
                 /\ progress'[j].type = ItemType(dl, k)
                 /\ progress'[j].status = "error"
                 /\ progress'[j].message = "Download failed"
            /\ \A j \in Items : j # k => tasks'[j] = tasks[j]
            /\ dl' = dl)
      /\ (dl'.pc = "returned" /\ ~dl'.wasCancelled)
           => \A k \in 1..Len(tasks') : Settled(tasks'[k]) ]_vars

\* a call has returned in which one task failed, another task of the same
\* batch completed and a task of the next batch completed
C6_Witness ==
  /\ dl.pc = "returned" /\ ~dl.wasCancelled
  /\ \E k \in Items, j \in Items, m \in Items :
       /\ tasks[k].pc = "failed"
       /\ tasks[j].pc = "ok" /\ BatchOf(j) = BatchOf(k)
       /\ ItemSymbol(dl, j) # ItemSymbol(dl, k)
       /\ tasks[m].pc = "ok" /\ BatchOf(m) > BatchOf(k)

(***************************************************************************)
(* Specification of the update scheduler: a client manages the schedules   *)
(* and starts and stops the timer while time passes.                       *)
(***************************************************************************)
\* the store holds price data for AAPL, saved by an earlier download
StoredBefore ==
  SetPriceData(FreshDb, "AAPL", GeneratePriceData(-HistoryDays, 0, 1))

InitSched ==
  /\ \/ db = NullDb /\ isConnected = FALSE
     \/ db = StoredBefore /\ isConnected = TRUE
  /\ storeOps = {}
  /\ lastOp = NoOp
  /\ DownloadInit /\ SchedIdle /\ AuthIdle
  /\ clock = [day |-> 0, slot |-> 0]
  /\ tzWest \in BOOLEAN

NextSched ==
  \/ addUpdateSchedule
  \/ removeUpdateSchedule
  \/ startIncrementalUpdates
  \/ stopIncrementalUpdates
  \/ TimePasses
  \/ Tick
  \/ \E t \in 1..MaxTicks : ListDone(t)
  \/ \E t \in 1..MaxTicks : ListConnected(t)
  \/ \E t \in 1..MaxTicks : ListFail(t)
  \/ \E t \in 1..MaxTicks, k \in 1..Cardinality(Symbols) : RunGetLastDone(t, k)
  \/ \E t \in 1..MaxTicks, k \in 1..Cardinality(Symbols) : RunDownloadDone(t, k)
  \/ \E t \in 1..MaxTicks, k \in 1..Cardinality(Symbols) : RunSaveDone(t, k)
  \/ \E t \in 1..MaxTicks, k \in 1..Cardinality(Symbols) : RunTaskFail(t, k)
  \/ \E t \in 1..MaxTicks : RunBatchDone(t)
  \/ \E t \in 1..MaxTicks : RunDelayDone(t)

SpecSched == InitSched /\ [][NextSched]_vars

(***************************************************************************)
(* Properties of the update scheduler.                                     *)
(***************************************************************************)
\* the schedules the timer callback tests when it runs
TimerSchedules == { objs[updateInterval.snap[h]] : h \in 1..Len(updateInterval.snap) }

\* the last run lies on an earlier calendar day than `now`, or there is none
RanBeforeToday(schedule, now) ==
  schedule.lastRun.isNull \/ schedule.lastRun.day < now.day

\* C7: a daily schedule is due exactly when its last run lies on an earlier
\* calendar day (or it never ran) and the time of day has reached its time.
C7_DailyDue ==
  updateInterval.active =>
    \A schedule \in TimerSchedules :
      schedule.frequency = "daily" =>
        (isScheduleDue(schedule, clock, clock.slot)
           <=> (RanBeforeToday(schedule, clock) /\ clock.slot >= schedule.time))

\* the last run of the schedule lies in the period of `now`: the same day
\* (daily), fewer than 7 days ago (weekly), the same month (monthly)
InCurrentPeriod(schedule, now) ==
  /\ ~schedule.lastRun.isNull
  /\ CASE schedule.frequency = "daily" -> schedule.lastRun.day = now.day
       [] schedule.frequency = "weekly" ->
            /\ getTime(schedule.lastRun) <= getTime(now)
            /\ getTime(now) - getTime(schedule.lastRun) < 7 * SlotsPerDay
       [] schedule.frequency = "monthly" ->
            /\ Calendar(schedule.lastRun.day).year = Calendar(now.day).year
            /\ Calendar(schedule.lastRun.day).monthNo = Calendar(now.day).monthNo

\* callback t leaves the run it awaited, after the last batch of the run
RunCompletes(t) ==
  /\ ticks[t].phase = "delay"
  /\ ticks'[t] # ticks[t]
  /\ ticks'[t].phase # "batch"

\* C8: a schedule whose last run lies in the current period is not due, for
\* the timer and for a callback that goes on with its loop; and a completed
\* run leaves its schedule object with a last run of now, so not due.
C8_NotDueInPeriod ==
  [][ /\ \A schedule \in TimerSchedules' :
           InCurrentPeriod(schedule, clock')
             => ~isScheduleDue(schedule, clock', clock'.slot)
      /\ \A t \in 1..MaxTicks : \A h \in 1..Len(ticks'[t].snap) :
           InCurrentPeriod(objs'[ticks'[t].snap[h]], ticks'[t].now)
             => ~isScheduleDue(objs'[ticks'[t].snap[h]], ticks'[t].now,
                               ticks'[t].now.slot)
      /\ \A t \in 1..MaxTicks :
           RunCompletes(t) =>
             LET ref == ticks[t].snap[ticks[t].idx]
             IN ref \in Range(updateInterval'.snap) =>
                  /\ objs'[ref].lastRun = RunAt(clock)
                  /\ InCurrentPeriod(objs'[ref], clock')
                  /\ ~isScheduleDue(objs'[ref], clock', clock'.slot) ]_vars

\* the timer holds a daily and a weekly schedule that both ran in the current
\* period and whose time of day is reached
C8_Witness ==
  /\ updateInterval.active
  /\ \E a \in TimerSchedules, b \in TimerSchedules :
       /\ a.frequency = "daily" /\ b.frequency = "weekly"
       /\ InCurrentPeriod(a, clock) /\ InCurrentPeriod(b, clock)
       /\ clock.slot >= a.time /\ clock.slot >= b.time

(***************************************************************************)
(* Specification of the store: a client calls its functions, also while    *)
(* earlier calls still await the connection.                               *)
(***************************************************************************)
InitStore ==
  /\ StoreInit /\ DownloadInit /\ SchedIdle /\ AuthIdle
  /\ clock = [day |-> 0, slot |-> 0]
  /\ tzWest = FALSE

NextStore ==
  \/ savePriceDataToMongoDB
  \/ saveFundamentalDataToMongoDB
  \/ getPriceDataFromMongoDB
  \/ getFundamentalDataFromMongoDB
  \/ deleteSymbolFromMongoDB
  \/ StoreConnected

SpecStore == InitStore /\ [][NextStore]_vars

\* C9: records are keyed by symbol.  A get of a symbol that ends next after
\* a save of that symbol returns the saved data; a save leaves the stored
\* data of every other symbol as it was; a get of a symbol with nothing
\* stored returns the empty list (price) or null (fundamental).
C9_KeyedBySymbol ==
  [][ lastOp' # lastOp =>
        /\ (lastOp'.kind = "getPrice" /\ lastOp.kind = "savePrice"
              /\ lastOp'.symbol = lastOp.symbol)
             => lastOp'.val = lastOp.val
        /\ (lastOp'.kind = "getFund" /\ lastOp.kind = "saveFund"
              /\ lastOp'.symbol = lastOp.symbol)
             => lastOp'.fund = lastOp.fund
        /\ lastOp'.kind \in {"savePrice", "saveFund"} =>
             \A other \in Symbols \ {lastOp'.symbol} :
               /\ GetPriceData(db', other) = GetPriceData(db, other)
               /\ GetFundamentalData(db', other) = GetFundamentalData(db, other)
        /\ (lastOp'.kind = "getPrice" /\ ~db.priceData[lastOp'.symbol].has)
             => lastOp'.val = NoPrice
        /\ (lastOp'.kind = "getFund" /\ ~db.fundamentalData[lastOp'.symbol].has)
             => lastOp'.fund = NoFund ]_vars

(***************************************************************************)
(* Specification of the AuthProvider: it mounts with or without stored     *)
(* tokens; consumers log in, log out and refresh the token.                *)
(***************************************************************************)
InitAuth ==
  /\ StoreInit /\ DownloadInit /\ SchedIdle
  /\ clock = [day |-> 0, slot |-> 0]
  /\ tzWest = FALSE
  /\ user = NoUser
  /\ lastAuth = NoAuth
  /\ dashboard = DashboardInit
  /\ \/ /\ localStorage = NoTokens
        /\ loading = FALSE
        /\ authOps = AuthOpsIdle
     \/ /\ localStorage \in TokenResponses
        /\ loading = TRUE
        /\ authOps = [AuthOpsIdle EXCEPT !.mount = "pending"]

NextAuth ==
  \/ MountSettled
  \/ login
  \/ LoginResolved
  \/ CurrentUserResolved
  \/ LoginRejected
  \/ logout
  \/ refreshToken
  \/ RefreshResolved
  \/ RefreshRejected

SpecAuth == InitAuth /\ [][NextAuth]_vars

\* C10: when a login ends with success both tokens are in local storage and
\* user is the user getCurrentUser gave; when logout ends no token is in
\* local storage and user is null; when a refreshToken whose request failed
\* ends, likewise.
C10_AuthWrapsTokens ==
  [][ lastAuth' # lastAuth =>
        /\ (lastAuth'.op = "login" /\ lastAuth'.ok) =>
             /\ localStorage'.access_token # NoItem
             /\ localStorage'.refresh_token # NoItem
             /\ user' = lastAuth'.user /\ user' # NoUser
        /\ lastAuth'.op = "logout" =>
             localStorage' = NoTokens /\ user' = NoUser
        /\ (lastAuth'.op = "refreshToken" /\ ~lastAuth'.ok) =>
             localStorage' = NoTokens /\ user' = NoUser ]_vars

(***************************************************************************)
(* Specification of the Dashboard: it mounts and loads the portfolios.     *)
(***************************************************************************)
InitDash ==
  /\ StoreInit /\ DownloadInit /\ SchedIdle /\ AuthIdle
  /\ clock = [day |-> 0, slot |-> 0]
  /\ tzWest = FALSE

NextDash ==
  \/ loadDashboardData
  \/ LoadDashboardFailed

SpecDash == InitDash /\ [][NextDash]_vars

\* C11: the total value is the sum of quantity x average_cost over all
\* holdings of all portfolios; the values of the four asset-type rows add up
\* to the total value and their counts to the number of holdings.
C11_RowsAddUp ==
  ~dashboard.aggregatedData.isNull =>
    LET a == dashboard.aggregatedData.v
        all == Flatten(dashboard.portfolios)
    IN /\ a.totalValue = SumSeq(MapSeq(all, HoldingValue))
       /\ a.equities.value + a.etfs.value + a.mutualFunds.value + a.cash.value
            = a.totalValue
       /\ a.equities.count + a.etfs.count + a.mutualFunds.count + a.cash.count
            = dashboard.summary.v.holdings_count

(***************************************************************************)
(* Properties of the incremental downloads of a scheduled update.          *)
(***************************************************************************)
\* task k of the run of callback t leaves its download (which has saved the
\* data, line 51) or its savePriceData in this step
RunTaskStores(t, k) ==
  /\ ticks[t].phase = "batch" /\ ticks'[t].phase = "batch"
  /\ k \in 1..Len(ticks[t].rt) /\ Len(ticks'[t].rt) = Len(ticks[t].rt)
  /\ \/ ticks[t].rt[k].pc = "download" /\ ticks'[t].rt[k].pc = "save"
     \/ ticks[t].rt[k].pc = "save" /\ ticks'[t].rt[k].pc = "ok"

\* C12: an incremental price download keeps what is stored: every date with
\* a price record stored for the symbol before the download still has one
\* when the download has saved its data.
C12_IncrementalKeeps ==
  [][ \A t \in 1..MaxTicks, k \in 1..Cardinality(Symbols) :
        RunTaskStores(t, k) =>
          GetPriceData(db, ticks[t].symbols[k]).dates
            \subseteq GetPriceData(db', ticks[t].symbols[k]).dates ]_vars

(***************************************************************************)
(* Further properties of the batch downloads.                              *)
(***************************************************************************)
\* C13: when a batch download has returned without cancellation, every
\* entry of the last progress report is 'complete' or 'error'.
C13_ReportSettled ==
  (dl.pc = "returned" /\ ~dl.wasCancelled) =>
    \A k \in 1..Len(reported) : reported[k].status \in {"complete", "error"}

(***************************************************************************)
(* Specification of the update timer with runs that outlast the minute     *)
(* between two ticks: the service after addUpdateSchedule(schedule) and     *)
(* startIncrementalUpdates().                                              *)
(***************************************************************************)
InitOverlap ==
  /\ \/ db = NullDb /\ isConnected = FALSE
     \/ db = StoredBefore /\ isConnected = TRUE
  /\ storeOps = {}
  /\ lastOp = NoOp
  /\ DownloadInit /\ AuthIdle
  /\ clock = [day |-> 0, slot |-> 0]
  /\ tzWest = FALSE
  /\ ticks = [t \in 1..MaxTicks |-> FreeTick]
  /\ calls = 2
  /\ thrown = NoError
  /\ manual = ManualIdle
  /\ isRunning = TRUE
  /\ \E schedule \in ScheduleInputs :
       LET r == SetNew([q \in Refs |-> NoSchedule], <<>>, NoInterval, ticks, schedule)
       IN /\ objs = r.objs
          /\ updateSchedules = r.map
          /\ updateInterval =
               [active |-> TRUE, snap |-> EnabledSchedules(r.objs, r.map),
                timers |-> 1]

NextOverlap ==
  \/ TimePasses
  \/ Tick
  \/ TickDuringRun
  \/ \E t \in 1..MaxTicks : ListDone(t)
  \/ \E t \in 1..MaxTicks : ListConnected(t)
  \/ \E t \in 1..MaxTicks : ListFail(t)
  \/ \E t \in 1..MaxTicks, k \in 1..Cardinality(Symbols) : RunGetLastDone(t, k)
  \/ \E t \in 1..MaxTicks, k \in 1..Cardinality(Symbols) : RunDownloadDone(t, k)
  \/ \E t \in 1..MaxTicks, k \in 1..Cardinality(Symbols) : RunSaveDone(t, k)
  \/ \E t \in 1..MaxTicks, k \in 1..Cardinality(Symbols) : RunTaskFail(t, k)
  \/ \E t \in 1..MaxTicks : RunBatchDone(t)
  \/ \E t \in 1..MaxTicks : RunDelayDone(t)

SpecOverlap == InitOverlap /\ [][NextOverlap]_vars

\* the schedule callback t runs
RunOf(t) == objs[ticks[t].snap[ticks[t].idx]].id

\* C14: no schedule is run by two runs at a time.
C14_NoOverlappingRuns ==
  \A t1, t2 \in InFlight : RunOf(t1) = RunOf(t2) => t1 = t2

(***************************************************************************)
(* Properties of startIncrementalUpdates and stopIncrementalUpdates.       *)
(***************************************************************************)
\* C15: startIncrementalUpdates called while updates are running throws
\* 'Incremental updates are already running' and leaves isRunning and the
\* timer as they are; at most one timer is active, and isRunning is true
\* exactly when one is.
C15_StartStop ==
  [][ /\ (startIncrementalUpdates /\ isRunning) =>
           (thrown' = AlreadyRunning /\ UNCHANGED <<isRunning, updateInterval>>)
      /\ (calls' # calls /\ thrown' = AlreadyRunning) =>
           (isRunning /\ UNCHANGED <<isRunning, updateInterval>>)
      /\ updateInterval'.timers <= 1
      /\ isRunning' <=> (updateInterval'.timers = 1)
      /\ updateInterval'.active <=> (updateInterval'.timers = 1) ]_vars

\* startIncrementalUpdates has thrown while the timer of an earlier call
\* was active
C15_Witness ==
  /\ thrown = AlreadyRunning
  /\ isRunning /\ updateInterval.timers = 1

\* callback t calls runScheduledUpdate in this step
RunStarts(t) == ticks'[t].phase = "listing" /\ ticks'[t] # ticks[t]

\* C16: while the updates are stopped (stopIncrementalUpdates has returned
\* and startIncrementalUpdates has not been called since, or was never
\* called), no scheduled update is started.
C16_StoppedStartsNothing ==
  [][ ~isRunning => \A t \in 1..MaxTicks : ~RunStarts(t) ]_vars

\* the schedules that are registered and enabled: getActiveSchedules()
ActiveSchedules ==
  { objs[ref] : ref \in Range(EnabledSchedules(objs, updateSchedules)) }

\* C17: the schedules a timer tick evaluates are the schedules that are
\* registered and enabled at the time of the tick.
C17_TickSeesCurrentSchedules ==
  updateInterval.timers > 0 => TimerSchedules = ActiveSchedules

\* the ids of getUpdateSchedules()
RegisteredIds(o, map) == { o[map[j]].id : j \in 1..Len(map) }

\* C18: a schedule id that is not in getUpdateSchedules() (it was removed, or
\* never added) comes into it only by a call that adds it.
C18_RemovedStaysRemoved ==
  [][ (\E id \in SchedIds :
         /\ id \notin RegisteredIds(objs, updateSchedules)
         /\ id \in RegisteredIds(objs', updateSchedules'))
      => (addUpdateSchedule /\ calls' = calls + 1) ]_vars

(***************************************************************************)
(* Properties of runScheduledUpdate.                                       *)
(***************************************************************************)
\* lastRun of the schedule registered with this id; NullRun without one
LastRunOf(o, map, id) ==
  IF id \in RegisteredIds(o, map)
  THEN o[CHOOSE r \in Range(map) : o[r].id = id].lastRun
  ELSE NullRun

\* the run callback t awaits ends in this step after its last batch, or
\* after a listing without symbols
RunThrough(t) ==
  \/ RunCompletes(t)
  \/ /\ (ListDone(t) \/ ListConnected(t))
     /\ ticks'[t].phase \notin {"connect", "batch"}

StoredBoth ==
  SetPriceData(StoredBefore, "MSFT", GeneratePriceData(-1, 0, 2))

InitManual ==
  /\ \/ db = NullDb /\ isConnected = FALSE
     \/ db \in {StoredBefore, StoredBoth} /\ isConnected = TRUE
  /\ storeOps = {}
  /\ lastOp = NoOp
  /\ DownloadInit /\ SchedIdle /\ AuthIdle
  /\ clock = [day |-> 0, slot |-> 0]
  /\ tzWest \in BOOLEAN

NextManual ==
  \/ triggerManualUpdate
  \/ TimePasses
  \/ ManualListDone
  \/ ManualListConnected
  \/ ManualListFail
  \/ \E k \in 1..Cardinality(Symbols) : ManualDownloadDone(k)
  \/ \E k \in 1..Cardinality(Symbols) : ManualSaveDone(k)
  \/ \E k \in 1..Cardinality(Symbols) : ManualTaskFail(k)
  \/ ManualBatchDone
  \/ ManualDelayDone

SpecManual == InitManual /\ [][NextManual]_vars

(***************************************************************************)
(* Properties of triggerManualUpdate.                                      *)
(***************************************************************************)
\* the dates of a full-history download made now
FullDatesNow ==
  GeneratePriceData(clock.day - HistoryDays, clock.day, 1).dates

\* C20: every download of a manual update covers the full history and is
\* what the store then holds for the symbol; the call returns only when the
\* task of every listed symbol has succeeded or failed, whatever the other
\* tasks did; it rejects only from the listing of the symbols.
C20_ManualFullRefresh ==
  [][ /\ \A k \in 1..Cardinality(Symbols) :
           ManualDownloadDone(k) =>
             /\ manual'.mt[k].val.dates = FullDatesNow
             /\ GetPriceData(db', manual.symbols[k]) = manual'.mt[k].val
      /\ \A k \in 1..Cardinality(Symbols) :
           ManualSaveDone(k) =>
             GetPriceData(db', manual.symbols[k]) = manual.mt[k].val
      /\ (manual.phase = "listing" /\ ~NeedsConnect /\ ManualListDone)
           => manual'.symbols = GetSymbols(db)
      /\ (manual.phase # "resolved" /\ manual'.phase = "resolved")
           => \A k \in 1..Len(manual'.symbols) :
                manual'.mt[k].pc \in {"ok", "failed"}
      /\ (manual.phase # "rejected" /\ manual'.phase = "rejected")
           => manual.phase \in {"listing", "connect"}
      /\ (manual.phase \in {"batch", "delay"})
           => manual'.phase \in {"batch", "delay", "resolved"} ]_vars

\* a manual update has returned after the task of one symbol failed and the
\* task of a later symbol saved a full history
C20_Witness ==
  /\ manual.phase = "resolved"
  /\ \E k, m \in 1..Len(manual.symbols) :
       /\ k < m
       /\ manual.mt[k].pc = "failed"
       /\ manual.mt[m].pc = "ok"
       /\ GetPriceData(db, manual.symbols[m]) = manual.mt[m].val
       /\ manual.mt[m].val.dates # {}

(***************************************************************************)
(* Properties of the store's symbol status.                                *)
(***************************************************************************)
\* the collections of d that hold an entry for the symbol (a saved price
\* list is an entry, whatever its length)
PresentIn(d, symbol) ==
  {c \in {"priceData"} : d.priceData[symbol].has}
    \cup {c \in {"fundamentalData"} : d.fundamentalData[symbol].has}

StatusConsistent(d) ==
  \A symbol \in Symbols :
    d.symbols[symbol].has =>
      /\ d.symbols[symbol].status = "complete"
           <=> Cardinality(PresentIn(d, symbol)) = 2
      /\ d.symbols[symbol].status = "partial"
           <=> Cardinality(PresentIn(d, symbol)) = 1
      /\ getSymbolStatus(d.symbols[symbol]) = d.symbols[symbol].status

\* C21: every symbol of the symbols collection has status 'complete' exactly
\* when it has an entry in both the price and the fundamental collection and
\* 'partial' exactly when it has an entry in one of them; when a
\* deleteSymbolFromMongoDB ends, the symbol is in none of the three
\* collections.
C21_StatusMatchesData ==
  /\ []StatusConsistent(db)
  /\ [][ (lastOp' # lastOp /\ lastOp'.kind = "delete") =>
           /\ ~db'.symbols[lastOp'.symbol].has
           /\ PresentIn(db', lastOp'.symbol) = {} ]_vars

\* every status has occurred at the end of a delete: the deleted symbol had
\* entries before, the other symbol is complete
C21_Witness ==
  /\ lastOp.kind = "delete"
  /\ ~db.symbols[lastOp.symbol].has
  /\ \E symbol \in Symbols :
       /\ db.symbols[symbol].status = "complete"
       /\ Cardinality(PresentIn(db, symbol)) = 2

(***************************************************************************)
(* Properties of concurrent store calls.                                   *)
(***************************************************************************)
\* C22: the data a completed save has stored for a symbol is what reads
\* return until a save or a delete of that symbol completes, also when the
\* connectToDatabase awaited by another store call completes in between.
C22_NoCompletedSaveLost ==
  [][ \A symbol \in Symbols :
        LET written == /\ lastOp' # lastOp
                       /\ lastOp'.symbol = symbol
                       /\ lastOp'.kind \in {"savePrice", "saveFund", "delete"}
        IN /\ (db.priceData[symbol].has /\ ~written)
                => GetPriceData(db', symbol) = GetPriceData(db, symbol)
           /\ (db.fundamentalData[symbol].has /\ ~written)
                => GetFundamentalData(db', symbol) = GetFundamentalData(db, symbol)
    ]_vars

====
